---- MODULE Spec2Model ----
(***************************************************************************)
(* Verification model of the DataPrism CDN deployment tooling:             *)
(*   - CDNDeploymentOrchestrator (deploy / rollback / listDeployments),    *)
(*   - GitHubPagesProvider (deploy / rollback / listDeployments),          *)
(*   - CDNDeploymentValidator (validateDeployment and its check groups),   *)
(*   - withRetry of the base provider and of the plugin loader,            *)
(*   - the command-line entry points and their exit codes,                 *)
(*   - the manifest plugin (generateBundle, generateManifest),             *)
(*   - the asset scan of prepareAssetBundle,                               *)
(*   - CDNPluginLoader (loadPlugin, loadPlugins and the module cache).     *)
(* Spec         : one orchestrator or provider invocation, step by step,   *)
(*                and the CLI command around it.                           *)
(* SpecVal      : one CDNDeploymentValidator.validateDeployment run and    *)
(*                the validate commands.                                   *)
(* SpecRetry    : one withRetry call.                                      *)
(* SpecManifest : generateBundle invocations of the manifest plugin.       *)
(* SpecScan     : one prepareAssetBundle scan of an assets directory.      *)
(* SpecLoader   : the calls a client makes on one CDNPluginLoader.         *)
(* SpecLoaderLive : SpecLoader with the pending steps eventually taken.    *)
(***************************************************************************)
EXTENDS Integers, Sequences, FiniteSets, TLC

VARIABLES
  pc,       \* position of the invoked operation
  call,     \* the invocation: operation, options, config file, assets dir, env
  config,   \* DeploymentConfig returned by loadConfiguration (or NoConfig)
  trace,    \* ordered log of the steps taken and of their side effects
  conn,     \* what the orchestrator's provider.testConnection() returned
  ppc,      \* position inside GitHubPagesProvider.deploy
  plogs,    \* the logs array of GitHubPagesProvider.deploy
  presult,  \* how the provider method ended (returned / threw)
  pushed,   \* remote branch that was force-pushed, "none" while untouched
  staged,   \* state of the .deploy-temp staging directory
  outcome,  \* how the invoked operation ended (resolved / rejected)
  vin,      \* validator run: options, url and network behaviour
  vres,     \* validator run: the ValidationResult (or NoResult)
  rt,       \* withRetry call: loop counter, attempts made, waits, result
  cli,      \* command-line run: entry point, command, console output, exit code
  mf,       \* manifest plugin: closure state of the instance, invocations so far
  sc,       \* asset scan: the directory tree and what prepareAssetBundle made of it
  pl        \* plugin loader: registry, module cache, calls in flight, network

orchVars == <<pc, call, config, trace, conn, ppc, plogs, presult, pushed, staged, outcome>>
valVars  == <<vin, vres>>
vars     == <<pc, call, config, trace, conn, ppc, plogs, presult, pushed, staged, outcome, vin, vres, rt, cli, mf, sc, pl>>

\* what the actions of each specification leave alone
exceptOrch     == <<valVars, rt, cli, mf, sc, pl>>
exceptVal      == <<orchVars, rt, cli, mf, sc, pl>>
exceptRetry    == <<orchVars, valVars, cli, mf, sc, pl>>
exceptOrchCli  == <<valVars, rt, mf, sc, pl>>
exceptValCli   == <<orchVars, rt, mf, sc, pl>>
exceptManifest == <<orchVars, valVars, rt, cli, sc, pl>>
exceptScan     == <<orchVars, valVars, rt, cli, mf, pl>>
exceptLoader   == <<orchVars, valVars, rt, cli, mf, sc>>

UNDEF  == "undefined"   \* a JavaScript undefined / missing value
ABSENT == "absent"      \* an object key that is not present at all

(***************************************************************************)
(* Configuration: DEFAULT_DEPLOYMENT_CONFIG and loadConfiguration          *)
(***************************************************************************)
Targets == {"github-pages", "cloudflare-pages", "netlify", "vercel"}

ConfigFields == {"target", "environment", "repository", "branch", "customDomain", "baseUrl"}

DEFAULT_DEPLOYMENT_CONFIG ==
  [target |-> UNDEF, environment |-> "production", repository |-> UNDEF,
   branch |-> "main", customDomain |-> UNDEF, baseUrl |-> UNDEF]

\* a || b on strings: b when a is undefined
OrElse(a, b) == IF a = UNDEF THEN b ELSE a

\* lines 146-150: defaults, then options.target / options.environment
BaseConfig(options) ==
  [DEFAULT_DEPLOYMENT_CONFIG EXCEPT
     !.target = OrElse(options.target, "github-pages"),
     !.environment = OrElse(options.environment, "production")]

\* does loadConfiguration read the config file (options.configFile && existsSync)
FileIsRead(file) == file.state \in {"valid", "malformed"}

\* lines 152-156: { ...config, ...fileConfig }: every key of the file wins
MergeFile(cfg, file) ==
  IF file.state = "valid"
    THEN [k \in ConfigFields |-> IF file.config[k] = UNDEF THEN cfg[k] ELSE file.config[k]]
    ELSE cfg

\* lines 158-162: the four CLI overrides
ApplyCliOverrides(cfg, options) ==
  [cfg EXCEPT
     !.repository = OrElse(options.repository, cfg.repository),
     !.branch = OrElse(options.branch, cfg.branch),
     !.customDomain = OrElse(options.customDomain, cfg.customDomain),
     !.baseUrl = OrElse(options.baseUrl, cfg.baseUrl)]

MergedConfig(options, file) == ApplyCliOverrides(MergeFile(BaseConfig(options), file), options)

\* variant of the check below that accepts every configuration
MissingRepositoryLax(cfg) == FALSE

\* lines 164-167: the precondition check of loadConfiguration
MissingRepository(cfg) == cfg.target = "github-pages" /\ cfg.repository = UNDEF

ErrRepoRequired == "GitHub repository is required for GitHub Pages deployment"
ErrConfigJson   == "SyntaxError: config file is not valid JSON"

\* loadConfiguration as a whole: the config, or the error it throws
LoadConfiguration(options, file) ==
  IF file.state = "malformed" THEN [ok |-> FALSE, error |-> ErrConfigJson, config |-> MergedConfig(options, file)]
  ELSE IF MissingRepository(MergedConfig(options, file))
    THEN [ok |-> FALSE, error |-> ErrRepoRequired, config |-> MergedConfig(options, file)]
  ELSE [ok |-> TRUE, error |-> UNDEF, config |-> MergedConfig(options, file)]

NoConfig == [target |-> UNDEF, environment |-> UNDEF, repository |-> UNDEF,
             branch |-> UNDEF, customDomain |-> UNDEF, baseUrl |-> UNDEF]

(***************************************************************************)
(* Results                                                                 *)
(***************************************************************************)
NoOutcome == [kind |-> "none", success |-> FALSE, deploymentId |-> UNDEF, error |-> UNDEF, logs |-> <<>>]

Rejected(msg) == [kind |-> "rejected", success |-> FALSE, deploymentId |-> UNDEF, error |-> msg, logs |-> <<>>]

Resolved(success, id, err, logs) ==
  [kind |-> "resolved", success |-> success, deploymentId |-> id, error |-> err, logs |-> logs]

NoPResult == [kind |-> "none", success |-> FALSE, deploymentId |-> UNDEF, error |-> UNDEF, logs |-> <<>>]

PReturned(success, id, err, logs) ==
  [kind |-> "returned", success |-> success, deploymentId |-> id, error |-> err, logs |-> logs]

PThrew(msg) == [kind |-> "threw", success |-> FALSE, deploymentId |-> UNDEF, error |-> msg, logs |-> <<>>]

DeploymentId == "deploy_id"   \* generateDeploymentId(): deploy_<epoch-ms>_<random>

Has(t, e) == \E i \in 1..Len(t) : t[i] = e

Count(t, e) == Cardinality({i \in 1..Len(t) : t[i] = e})


(***************************************************************************)
(* Inputs of one invocation                                                *)
(***************************************************************************)
NoFileConfig == [k \in ConfigFields |-> UNDEF]

FileConfigs ==
  {[NoFileConfig EXCEPT !.target = t, !.repository = r, !.branch = b] :
     t \in {UNDEF, "github-pages", "netlify"}, r \in {UNDEF, "file/repo"}, b \in {UNDEF, "file-branch"}}

\* options.configFile unset / set but not on disk / readable JSON / unparsable
ConfigFiles ==
  {[state |-> s, config |-> NoFileConfig] : s \in {"none", "missing", "malformed"}}
    \cup {[state |-> "valid", config |-> c] : c \in FileConfigs}

CliOptions ==
  {[target |-> t, environment |-> UNDEF, repository |-> r, branch |-> b,
    customDomain |-> UNDEF, baseUrl |-> UNDEF, dryRun |-> d, validate |-> v] :
     t \in {UNDEF} \cup Targets, r \in {UNDEF, "cli/repo"}, b \in {UNDEF, "cli-branch"},
     d \in BOOLEAN, v \in BOOLEAN}

\* the assets directory as prepareAssetBundle finds it
AssetDirs == {"missing", "ok", "unreadableFile", "badManifest"}

Hooks == {"beforeDeploy", "afterDeploy", "onError"}

NoCall == [op |-> "none", options |-> CHOOSE o \in CliOptions : TRUE,
           file |-> [state |-> "none", config |-> NoFileConfig],
           assets |-> "ok", token |-> FALSE, hooks |-> {}, pbranch |-> ABSENT]

OrchInit ==
  /\ pc = "idle"
  /\ call = NoCall
  /\ config = NoConfig
  /\ trace = <<>>
  /\ conn = "untested"
  /\ ppc = "idle"
  /\ plogs = <<>>
  /\ presult = NoPResult
  /\ pushed = "none"
  /\ staged = "none"
  /\ outcome = NoOutcome

Finish(o) == outcome' = o /\ pc' = "done"

(***************************************************************************)
(* CDNDeploymentOrchestrator                                               *)
(***************************************************************************)
\* a caller invokes orchestrator.deploy(options)
InvokeDeploy ==
  /\ pc = "idle" /\ cli.entry = "none"
  /\ \E o \in CliOptions, f \in ConfigFiles, a \in AssetDirs, tok \in BOOLEAN :
       call' = [op |-> "deploy", options |-> o, file |-> f, assets |-> a,
                token |-> tok, hooks |-> {}, pbranch |-> ABSENT]
  /\ pc' = "loadConfiguration"
  /\ UNCHANGED <<config, trace, conn, ppc, plogs, presult, pushed, staged, outcome>>

\* a caller invokes orchestrator.rollback(deploymentId, options)
InvokeRollback ==
  /\ pc = "idle" /\ cli.entry = "none"
  /\ \E o \in CliOptions, f \in ConfigFiles, tok \in BOOLEAN :
       /\ ~o.dryRun /\ o.validate
       /\ call' = [op |-> "rollback", options |-> o, file |-> f, assets |-> "ok",
                   token |-> tok, hooks |-> {}, pbranch |-> ABSENT]
  /\ pc' = "loadConfiguration"
  /\ UNCHANGED <<config, trace, conn, ppc, plogs, presult, pushed, staged, outcome>>

\* a caller invokes orchestrator.listDeployments(options)
InvokeListDeployments ==
  /\ pc = "idle" /\ cli.entry = "none"
  /\ \E o \in CliOptions, f \in ConfigFiles, tok \in BOOLEAN :
       /\ ~o.dryRun /\ o.validate
       /\ call' = [op |-> "list", options |-> o, file |-> f, assets |-> "ok",
                   token |-> tok, hooks |-> {}, pbranch |-> ABSENT]
  /\ pc' = "loadConfiguration"
  /\ UNCHANGED <<config, trace, conn, ppc, plogs, presult, pushed, staged, outcome>>

\* loadConfiguration(options), first step of deploy, rollback and listDeployments
LoadConfigurationStep ==
  /\ pc = "loadConfiguration"
  /\ LET r == LoadConfiguration(call.options, call.file) IN
       /\ trace' = Append(trace, "loadConfiguration")
       /\ IF r.ok
            THEN /\ config' = r.config
                 /\ pc' = IF call.op = "deploy" THEN "prepareAssetBundle" ELSE "getDeploymentProvider"
                 /\ UNCHANGED outcome
            ELSE /\ Finish(Rejected(r.error))
                 /\ UNCHANGED config
  /\ UNCHANGED <<call, conn, ppc, plogs, presult, pushed, staged>>

ErrAssetsMissing == "Assets directory not found"
ErrAssetRead     == "EACCES: permission denied"
ErrManifestJson  == "SyntaxError: manifest.json is not valid JSON"

\* prepareAssetBundle(assetsDir): what the scan of the directory ends with
ScanOutcome(assets) ==
  CASE assets = "missing"        -> [ok |-> FALSE, error |-> ErrAssetsMissing]
    [] assets = "unreadableFile" -> [ok |-> FALSE, error |-> ErrAssetRead]
    [] assets = "badManifest"    -> [ok |-> FALSE, error |-> ErrManifestJson]
    [] OTHER                     -> [ok |-> TRUE, error |-> UNDEF]

PrepareAssetBundle ==
  /\ pc = "prepareAssetBundle"
  /\ trace' = Append(trace, "prepareAssetBundle")
  /\ IF ScanOutcome(call.assets).ok
       THEN pc' = "dryRunCheck" /\ UNCHANGED outcome
       ELSE Finish(Rejected(ScanOutcome(call.assets).error))
  /\ UNCHANGED <<call, config, conn, ppc, plogs, presult, pushed, staged>>

DryRunLog == << <<"Dry run completed successfully">> >>

\* deploy lines 60-70: if (options.dryRun) return the synthetic result
DryRunCheck ==
  /\ pc = "dryRunCheck"
  /\ IF call.options.dryRun
       THEN Finish(Resolved(TRUE, "dry-run", UNDEF, DryRunLog))
       ELSE pc' = "getDeploymentProvider" /\ UNCHANGED outcome
  /\ UNCHANGED <<call, config, trace, conn, ppc, plogs, presult, pushed, staged>>

ErrNotImplemented == "Deployment target is not yet implemented"

\* getDeploymentProvider(config): the switch on config.target
GetDeploymentProvider ==
  /\ pc = "getDeploymentProvider"
  /\ IF config.target = "github-pages"
       THEN /\ trace' = Append(trace, "new GitHubPagesProvider")
            /\ pc' = CASE call.op = "deploy"   -> "testConnection"
                       [] call.op = "rollback" -> "provider.rollback"
                       [] OTHER                -> "provider.listDeployments"
            /\ UNCHANGED outcome
       ELSE /\ Finish(Rejected(ErrNotImplemented))
            /\ UNCHANGED trace
  /\ UNCHANGED <<call, config, conn, ppc, plogs, presult, pushed, staged>>

ErrConnect == "Failed to connect to deployment provider"

\* variant of TestConnection that goes on whatever testConnection returned
TestConnectionUnchecked ==
  /\ pc = "testConnection"
  /\ \E ok \in BOOLEAN :
       /\ conn' = IF ok THEN "connected" ELSE "refused"
       /\ trace' = trace \o <<"testConnection", "net">>
       /\ pc' = "provider.deploy" /\ UNCHANGED outcome
  /\ UNCHANGED <<call, config, ppc, plogs, presult, pushed, staged>>

\* deploy lines 75-80: connected = await provider.testConnection()
TestConnection ==
  /\ pc = "testConnection"
  /\ \E ok \in BOOLEAN :
       /\ conn' = IF ok THEN "connected" ELSE "refused"
       /\ trace' = trace \o <<"testConnection", "net">>
       /\ IF ok THEN pc' = "provider.deploy" /\ UNCHANGED outcome
                ELSE Finish(Rejected(ErrConnect))
  /\ UNCHANGED <<call, config, ppc, plogs, presult, pushed, staged>>

\* deploy line 84: result = await provider.deploy(assets, config)
CallProviderDeploy ==
  /\ pc = "provider.deploy"
  /\ trace' = Append(trace, "provider.deploy")
  /\ ppc' = "beforeDeploy"
  /\ pc' = "awaitDeploy"
  /\ UNCHANGED <<call, config, conn, plogs, presult, pushed, staged, outcome>>

ErrDeployFailed == "Deployment failed"

\* variant of AfterProviderDeploy without the test of result.success
AfterProviderDeployUnchecked ==
  /\ pc = "awaitDeploy"
  /\ ppc = "finished"
  /\ IF presult.kind = "threw" THEN Finish(Rejected(presult.error))
     ELSE IF call.options.validate
       THEN pc' = "validateDeployment" /\ UNCHANGED outcome
       ELSE Finish(Resolved(presult.success, presult.deploymentId, presult.error, presult.logs))
  /\ UNCHANGED <<call, config, trace, conn, ppc, plogs, presult, pushed, staged>>

\* deploy lines 86-100 and the catch of 102-105, once provider.deploy has ended
AfterProviderDeploy ==
  /\ pc = "awaitDeploy"
  /\ ppc = "finished"
  /\ IF presult.kind = "threw" THEN Finish(Rejected(presult.error))
     ELSE IF ~presult.success THEN Finish(Rejected(OrElse(presult.error, ErrDeployFailed)))
     ELSE IF call.options.validate
       THEN pc' = "validateDeployment" /\ UNCHANGED outcome
       ELSE Finish(Resolved(TRUE, presult.deploymentId, presult.error, presult.logs))
  /\ UNCHANGED <<call, config, trace, conn, ppc, plogs, presult, pushed, staged>>

ValidationOutcomes == {"passed", "issues", "throws"}

\* variant of AfterValidation in which validation gates the deploy
AfterValidationStrict(v) ==
  IF v = "passed"
    THEN Resolved(TRUE, presult.deploymentId, presult.error, presult.logs)
    ELSE Rejected("Deployment validation failed")

\* what deploy does with the outcome of this.validateDeployment(result.url):
\* validateDeployment catches everything, deploy returns result
AfterValidation(v) == Resolved(TRUE, presult.deploymentId, presult.error, presult.logs)

\* deploy lines 94-100 with validateDeployment (252-277): try { validator run } catch { log }
ValidateDeploymentStep ==
  /\ pc = "validateDeployment"
  /\ \E v \in ValidationOutcomes :
       /\ trace' = trace \o <<"validateDeployment", "net", v>>
       /\ Finish(AfterValidation(v))
  /\ UNCHANGED <<call, config, conn, ppc, plogs, presult, pushed, staged>>


(***************************************************************************)
(* GitHubPagesProvider                                                     *)
(***************************************************************************)
\* constructor lines 39-43: { branch: 'gh-pages', cname: true, ...options }
GhBranch(passed) == IF passed = ABSENT THEN "gh-pages" ELSE passed

\* the branch option the provider was constructed with
ProviderBranch ==
  IF call.op = "providerDeploy" THEN GhBranch(call.pbranch) ELSE GhBranch(config.branch)

\* a caller constructs a GitHubPagesProvider (with hooks) and calls its deploy
InvokeProviderDeploy ==
  /\ pc = "idle" /\ cli.entry = "none"
  /\ \E h \in SUBSET Hooks, tok \in BOOLEAN, b \in {ABSENT, "pages"} :
       call' = [NoCall EXCEPT !.op = "providerDeploy", !.hooks = h, !.token = tok,
                              !.pbranch = b, !.options.repository = "cli/repo"]
  /\ trace' = <<"new GitHubPagesProvider", "provider.deploy">>
  /\ ppc' = "beforeDeploy"
  /\ pc' = "awaitProvider"
  /\ UNCHANGED <<config, conn, plogs, presult, pushed, staged, outcome>>

\* the promise of the directly called provider.deploy settles
ProviderDeploySettles ==
  /\ pc = "awaitProvider"
  /\ ppc = "finished"
  /\ IF presult.kind = "threw"
       THEN Finish(Rejected(presult.error))
       ELSE Finish(Resolved(presult.success, presult.deploymentId, presult.error, presult.logs))
  /\ UNCHANGED <<call, config, trace, conn, ppc, plogs, presult, pushed, staged>>

\* control enters the catch block of deploy with the thrown error; msg is
\* what error.message reads from it
Caught(msg) == ppc' = "catch" /\ presult' = [NoPResult EXCEPT !.kind = "caught", !.error = msg]

\* how a hook given by the caller ends: it returns, throws an Error, throws
\* a string, or rejects with undefined
HookOutcomes == {"ok", "throwError", "throwString", "rejectUndefined"}

\* control enters the catch block of deploy with what a hook threw: an Error
\* has its message, a string has no message property, and undefined is a
\* value of which no property can be read
CaughtFromHook(r, msg) ==
  CASE r = "throwError"  -> Caught(msg)
    [] r = "throwString" -> Caught(UNDEF)
    [] OTHER -> ppc' = "catch" /\ presult' = [NoPResult EXCEPT !.kind = "caughtNullish"]

\* deploy lines 58-61: hooks.beforeDeploy
BeforeDeployHook ==
  /\ ppc = "beforeDeploy"
  /\ IF "beforeDeploy" \in call.hooks
       THEN \E r \in HookOutcomes :
              /\ trace' = Append(trace, "hook.beforeDeploy")
              /\ IF r = "ok" THEN ppc' = "validateConfig" /\ UNCHANGED presult
                             ELSE CaughtFromHook(r, "beforeDeploy hook failed")
       ELSE ppc' = "validateConfig" /\ UNCHANGED <<trace, presult>>
  /\ UNCHANGED <<pc, call, config, conn, plogs, pushed, staged, outcome>>

ErrToken  == "GitHub token is required (set GITHUB_TOKEN environment variable)"
ErrAccess == "Cannot access GitHub repository - check token and repository name"

\* deploy lines 63-64 with validateConfig (269-283)
ValidateConfig ==
  /\ ppc = "validateConfig"
  /\ plogs' = Append(plogs, <<"Validating deployment configuration...">>)
  /\ IF ~call.token
       THEN Caught(ErrToken) /\ UNCHANGED trace
       ELSE \E ok \in BOOLEAN :
              /\ trace' = trace \o <<"validateConfig.testConnection", "net">>
              /\ IF ok THEN ppc' = "prepareDeploymentDirectory" /\ UNCHANGED presult
                       ELSE Caught(ErrAccess)
  /\ UNCHANGED <<pc, call, config, conn, pushed, staged, outcome>>

\* deploy lines 66-67 with prepareDeploymentDirectory (285-312)
PrepareDeploymentDirectory ==
  /\ ppc = "prepareDeploymentDirectory"
  /\ plogs' = Append(plogs, <<"Preparing deployment directory...">>)
  /\ trace' = Append(trace, "fsWrite")
  /\ \E ok \in BOOLEAN :
       IF ok THEN staged' = "staged" /\ ppc' = "configureGitHubPages" /\ UNCHANGED presult
             ELSE staged' = "partial" /\ Caught("ENOSPC: write failed")
  /\ UNCHANGED <<pc, call, config, conn, pushed, outcome>>

\* deploy lines 69-70 with configureGitHubPages (314-377)
ConfigureGitHubPages ==
  /\ ppc = "configureGitHubPages"
  /\ plogs' = Append(plogs, <<"Configuring GitHub Pages...">>)
  /\ trace' = Append(trace, "fsWrite")
  /\ \E ok \in BOOLEAN :
       IF ok THEN ppc' = "deployToGitHubPages" /\ UNCHANGED presult
             ELSE Caught("ENOSPC: write failed")
  /\ UNCHANGED <<pc, call, config, conn, pushed, staged, outcome>>

\* deploy lines 72-73 with deployToGitHubPages (379-412): the local git commands
\* (init, checkout -b, config, add, commit), then git push --force origin <branch>
DeployToGitHubPages ==
  /\ ppc = "deployToGitHubPages"
  /\ plogs' = Append(plogs, <<"Deploying to GitHub Pages...">>)
  /\ \E r \in {"gitFails", "pushFails", "pushed"} :
       CASE r = "gitFails" ->
              /\ trace' = Append(trace, "fsWrite")
              /\ Caught("Command failed: git commit")
              /\ UNCHANGED pushed
         [] r = "pushFails" ->
              /\ trace' = trace \o <<"fsWrite", "net">>
              /\ Caught("Command failed: git push")
              /\ UNCHANGED pushed
         [] OTHER ->
              /\ trace' = trace \o <<"fsWrite", "net", "push">>
              /\ pushed' = ProviderBranch
              /\ ppc' = "cleanup"
              /\ UNCHANGED presult
  /\ UNCHANGED <<pc, call, config, conn, staged, outcome>>

\* deploy lines 75-76 with cleanupDeploymentDirectory (414-420): never throws
CleanupDeploymentDirectory ==
  /\ ppc = "cleanup"
  /\ plogs' = Append(plogs, <<"Cleaning up temporary files...">>)
  /\ \E ok \in BOOLEAN : staged' = IF ok THEN "removed" ELSE staged
  /\ ppc' = "afterDeploy"
  /\ UNCHANGED <<pc, call, config, trace, conn, presult, pushed, outcome>>

\* deploy lines 78-99: build the success result, run hooks.afterDeploy, return
AfterDeployHook ==
  /\ ppc = "afterDeploy"
  /\ IF "afterDeploy" \in call.hooks
       THEN \E r \in HookOutcomes :
              /\ trace' = Append(trace, "hook.afterDeploy")
              /\ IF r = "ok" THEN /\ presult' = PReturned(TRUE, DeploymentId, UNDEF, plogs)
                                  /\ ppc' = "finished"
                             ELSE CaughtFromHook(r, "afterDeploy hook failed")
       ELSE /\ presult' = PReturned(TRUE, DeploymentId, UNDEF, plogs)
            /\ ppc' = "finished"
            /\ UNCHANGED trace
  /\ UNCHANGED <<pc, call, config, conn, plogs, pushed, staged, outcome>>

\* line 102: `Deployment failed: ${error.message}`
FailureLog(msg) == <<"Deployment failed: ", msg>>

ErrReadMessage == "Cannot read properties of undefined (reading 'message')"

\* deploy lines 101-119: the catch block, with hooks.onError; line 102 reads
\* error.message first, a TypeError when the caught value is undefined, and
\* deploy then rejects before anything is logged or onError is called
CatchDeployError ==
  /\ ppc = "catch"
  /\ IF presult.kind = "caughtNullish"
       THEN /\ presult' = PThrew(ErrReadMessage)
            /\ UNCHANGED <<plogs, trace>>
       ELSE /\ plogs' = Append(plogs, FailureLog(presult.error))
            /\ IF "onError" \in call.hooks
                 THEN \E ok \in BOOLEAN :
                        /\ trace' = Append(trace, "hook.onError")
                        /\ presult' = IF ok THEN PReturned(FALSE, DeploymentId, presult.error, plogs')
                                            ELSE PThrew("onError hook failed")
                 ELSE /\ presult' = PReturned(FALSE, DeploymentId, presult.error, plogs')
                      /\ UNCHANGED trace
  /\ ppc' = "finished"
  /\ UNCHANGED <<pc, call, config, conn, pushed, staged, outcome>>

\* findPreviousDeploymentCommit (517-521): always null
FindPreviousDeploymentCommit(deploymentId) == UNDEF

ErrNoPrevious   == "Cannot find previous deployment to rollback from"
ErrResetMissing == "Rollback not implemented for GitHub Pages"

\* variant of Rollback without the test of previousCommit
RollbackUnguarded(previousCommit) ==
  [result |-> PReturned(FALSE, "rollback_id", ErrResetMissing, << <<"Rollback failed: ", ErrResetMissing>> >>),
   reset |-> TRUE]

\* rollback (165-198) given the commit found: the result, and whether
\* resetToCommit (523-526, which always throws) was called
Rollback(previousCommit) ==
  IF previousCommit = UNDEF
    THEN [result |-> PReturned(FALSE, "rollback_id", ErrNoPrevious, << <<"Rollback failed: ", ErrNoPrevious>> >>),
          reset |-> FALSE]
    ELSE [result |-> PReturned(FALSE, "rollback_id", ErrResetMissing, << <<"Rollback failed: ", ErrResetMissing>> >>),
          reset |-> TRUE]

\* orchestrator.rollback lines 125-128: return await provider.rollback(...)
ProviderRollback ==
  /\ pc = "provider.rollback"
  /\ LET r == Rollback(FindPreviousDeploymentCommit("id")) IN
       /\ trace' = trace \o <<"provider.rollback">> \o (IF r.reset THEN <<"resetToCommit">> ELSE <<>>)
       /\ presult' = r.result
       /\ Finish(Resolved(r.result.success, r.result.deploymentId, r.result.error, r.result.logs))
  /\ UNCHANGED <<call, config, conn, ppc, plogs, pushed, staged>>

\* orchestrator.listDeployments lines 135-142 with provider.listDeployments
\* (227-244): getRecentCommits returns [], so the list is empty
ProviderListDeployments ==
  /\ pc = "provider.listDeployments"
  /\ trace' = Append(trace, "provider.listDeployments")
  /\ Finish(Resolved(TRUE, UNDEF, UNDEF, <<>>))
  /\ UNCHANGED <<call, config, conn, ppc, plogs, presult, pushed, staged>>

(***************************************************************************)
(* Properties of the orchestrator and of the GitHub Pages provider (Spec)  *)
(***************************************************************************)
ProviderEvents ==
  {"new GitHubPagesProvider", "testConnection", "validateConfig.testConnection",
   "provider.deploy", "provider.rollback", "provider.listDeployments"}

NoProviderEvent == \A i \in 1..Len(trace) : trace[i] \notin ProviderEvents

Merged == MergedConfig(call.options, call.file)

\* C1: every deploy with dryRun true, a configuration that passes the
\* precondition check and an existing assets directory resolves with success
\* true and deploymentId "dry-run", and constructs and calls no provider.
C1_DryRunAlwaysResolves ==
  (/\ call.op = "deploy" /\ call.options.dryRun
   /\ LoadConfiguration(call.options, call.file).ok
   /\ call.assets # "missing"
   /\ pc = "done")
  => (/\ outcome.kind = "resolved" /\ outcome.success
      /\ outcome.deploymentId = "dry-run"
      /\ NoProviderEvent)

\* C2: GitHubPagesProvider.deploy never partially applies: a returned success
\* implies the force-push was performed, and a returned failure carries an
\* error and leaves the remote branch untouched.
C2_NeverPartiallyApplies ==
  (call.op \in {"deploy", "providerDeploy"} /\ ppc = "finished" /\ presult.kind = "returned")
  => (/\ presult.success => (Has(trace, "push") /\ pushed # "none")
      /\ ~presult.success => (presult.error # UNDEF /\ pushed = "none"))

\* C3: with a merged configuration of target github-pages and no repository,
\* deploy, rollback and listDeployments fail with the configuration error
\* before the assets are scanned, a provider is constructed, or any network
\* call or filesystem write is made.
C3_MissingRepositoryFailsFirst ==
  (/\ call.op \in {"deploy", "rollback", "list"}
   /\ call.file.state # "malformed"
   /\ Merged.target = "github-pages" /\ Merged.repository = UNDEF)
  => (/\ pc \in {"loadConfiguration", "done"}
      /\ \A i \in 1..Len(trace) : trace[i] = "loadConfiguration"
      /\ pc = "done" => outcome = Rejected(ErrRepoRequired))

C3_Witness ==
  /\ call.op = "rollback" /\ pc = "done"
  /\ call.file.state = "valid" /\ call.file.config.target = "github-pages"
  /\ call.options.target = "netlify"
  /\ outcome = Rejected(ErrRepoRequired)

OrchStepOrder == <<"loadConfiguration", "testConnection", "provider.deploy", "validateDeployment">>

IsOrchStep(e) == \E i \in 1..Len(OrchStepOrder) : OrchStepOrder[i] = e

OrchSteps == SelectSeq(trace, IsOrchStep)

\* C4: in a non-dry-run deploy the steps configure, testConnection,
\* provider.deploy, validateDeployment occur in this order, each at most once,
\* none before its predecessor; provider.deploy only after testConnection
\* returned true, validation only after provider.deploy returned success.
C4_StepsInOrder ==
  (call.op = "deploy" /\ ~call.options.dryRun)
  => (/\ Len(OrchSteps) <= Len(OrchStepOrder)
      /\ OrchSteps = SubSeq(OrchStepOrder, 1, Len(OrchSteps))
      /\ Has(trace, "provider.deploy") => conn = "connected"
      /\ Has(trace, "validateDeployment") => (presult.kind = "returned" /\ presult.success))

C4_Witness ==
  /\ call.op = "deploy" /\ ~call.options.dryRun /\ pc = "done"
  /\ OrchSteps = OrchStepOrder

\* C5: when provider.deploy returns success false, the orchestrator calls
\* provider.deploy no second time and rejects with the provider's error.
C5_ProviderFailureSurfaced ==
  /\ Count(trace, "provider.deploy") <= 1
  /\ (call.op = "deploy" /\ pc = "done" /\ presult.kind = "returned" /\ ~presult.success)
     => (/\ outcome.kind = "rejected"
         /\ presult.error # UNDEF
         /\ outcome.error = presult.error
         /\ ~Has(trace, "validateDeployment"))

C5_Witness ==
  /\ call.op = "deploy" /\ pc = "done"
  /\ presult.kind = "returned" /\ ~presult.success /\ presult.error = "Command failed: git push"
  /\ outcome.kind = "rejected"

\* C6: once provider.deploy returned success true, deploy resolves with that
\* same result whether validation passes, reports issues or throws; nothing
\* is rolled back.
C6_ValidationNeverFailsDeploy ==
  (call.op = "deploy" /\ pc = "done" /\ presult.kind = "returned" /\ presult.success)
  => (/\ outcome = Resolved(TRUE, presult.deploymentId, presult.error, presult.logs)
      /\ ~Has(trace, "provider.rollback") /\ ~Has(trace, "resetToCommit")
      /\ pushed # "none")

C6_Witness ==
  /\ call.op = "deploy" /\ pc = "done"
  /\ Has(trace, "validateDeployment") /\ Has(trace, "throws")
  /\ outcome.kind = "resolved" /\ outcome.success

\* C7: every deploy whose target is cloudflare-pages, netlify or vercel fails
\* with the "not yet implemented" error and calls no provider method.
C7_UnimplementedTargetFails ==
  (/\ call.op = "deploy" /\ pc = "done"
   /\ call.file.state # "malformed"
   /\ Merged.target \in {"cloudflare-pages", "netlify", "vercel"})
  => (/\ outcome.kind = "rejected"
      /\ outcome.error = ErrNotImplemented
      /\ NoProviderEvent)

\* C8: GitHubPagesProvider.rollback, when no prior deployment commit is found,
\* returns success false with a non-empty error, does not reset the branch
\* and leaves the remote untouched.
C8_RollbackWithoutPriorFails ==
  (Has(trace, "provider.rollback") /\ FindPreviousDeploymentCommit("id") = UNDEF)
  => (/\ presult.kind = "returned" /\ ~presult.success
      /\ presult.error \notin {UNDEF, ""}
      /\ outcome.kind = "resolved" /\ ~outcome.success /\ outcome.error = presult.error
      /\ ~Has(trace, "resetToCommit")
      /\ pushed = "none")

C8_Witness ==
  /\ call.op = "rollback" /\ pc = "done"
  /\ Has(trace, "provider.rollback")
  /\ outcome.error = ErrNoPrevious


(***************************************************************************)
(* CDNDeploymentValidator: the network as the validator sees it            *)
(***************************************************************************)
\* every fetch validateDeployment can issue, in program order
ConnectivityRequests == <<"HEAD /", "HEAD /manifest.json", "OPTIONS /", "HEAD / (cache)">>

AssetRequests ==
  <<"HEAD /manifest.json (fetchManifest)", "GET /manifest.json",
    "HEAD /core.min.js", "HEAD /orchestration.min.js", "HEAD /plugin-framework.min.js">>

WasmRequests == <<"HEAD /assets/dataprism-core.wasm", "HEAD /assets/dataprism_core_bg.wasm">>

DuckDBWorkers ==
  <<"HEAD /assets/duckdb-browser-mvp.worker.js", "HEAD /assets/duckdb-browser-eh.worker.js",
    "HEAD /assets/duckdb-browser-coi.worker.js", "HEAD /assets/duckdb-browser-coi.pthread.worker.js">>

\* `duckdb-asset-${asset.split('/').pop()?.replace('.', '-')}`: only the first
\* dot of the file name is replaced
DuckDBAssetNames ==
  <<"duckdb-asset-duckdb-browser-mvp-worker.js", "duckdb-asset-duckdb-browser-eh-worker.js",
    "duckdb-asset-duckdb-browser-coi-worker.js", "duckdb-asset-duckdb-browser-coi-pthread.worker.js">>

\* `duckdb-worker-${...}`, the name used when the request throws
DuckDBWorkerNames ==
  <<"duckdb-worker-duckdb-browser-mvp-worker.js", "duckdb-worker-duckdb-browser-eh-worker.js",
    "duckdb-worker-duckdb-browser-coi-worker.js", "duckdb-worker-duckdb-browser-coi-pthread.worker.js">>

DuckDBRequests == <<"HEAD /duckdb-config.json", "GET /duckdb-config.json">>

PluginRequests == <<"HEAD /plugin-framework.min.js (plugins)", "HEAD /plugins/">>

SensitiveFiles == <<"HEAD /.env", "HEAD /config.json", "HEAD /secrets.json", "HEAD /.git/config">>

SecurityRequests == <<"HEAD / (security)">>

PerformanceRequests == <<"HEAD /core.min.js (timing)", "HEAD /assets/dataprism-core.wasm (timing)">>

Range(q) == {q[i] : i \in 1..Len(q)}

Requests ==
  Range(ConnectivityRequests) \cup Range(AssetRequests) \cup Range(WasmRequests)
    \cup Range(DuckDBWorkers) \cup Range(DuckDBRequests) \cup Range(PluginRequests)
    \cup Range(SensitiveFiles) \cup Range(SecurityRequests) \cup Range(PerformanceRequests)

\* How one request ends:
\*   ok      2xx, the headers and body the validator looks for are there
\*   odd     2xx, the headers are there with other values than expected
\*   bare    2xx, none of those headers, a JSON body without the expected keys
\*   notok   a non-2xx answer without those headers, its body is no JSON
\*   throw   fetch rejects (timeout, connection error)
\*   instant / slow: as ok, answered in 0 ms / in 6000 ms (ok takes 100 ms)
Outcomes(r) ==
  {"ok", "bare", "notok", "throw"}
    \cup (IF r \in Range(SecurityRequests) THEN {"odd"} ELSE {})
    \cup (IF r \in Range(PerformanceRequests) THEN {"instant", "slow"} ELSE {})

Throws(o)      == o = "throw"
ResponseOk(o)  == o \in {"ok", "odd", "bare", "instant", "slow"}
HasHeaders(o)  == o \in {"ok", "odd", "instant", "slow"}
GoodHeaders(o) == o \in {"ok", "instant", "slow"}
Elapsed(o)     == CASE o = "instant" -> 0 [] o = "slow" -> 6000 [] OTHER -> 100

\* deployments the validator is pointed at
Profiles == {"healthy", "bare", "empty", "open", "down"}

ProfileNet(p) ==
  [r \in Requests |->
     CASE p = "healthy" -> (IF r \in Range(SensitiveFiles) THEN "notok" ELSE "ok")
       [] p = "bare"    -> (IF r \in Range(SensitiveFiles) THEN "notok" ELSE "bare")
       [] p = "empty"   -> "notok"
       [] p = "open"    -> "ok"
       [] OTHER         -> "throw"]

MaxDeviations == 1   \* requests that answer differently from the profile

\* the profile with the requests of devs answering as devs says
Deviate(net, devs) == [r \in Requests |-> IF r \in DOMAIN devs THEN devs[r] ELSE net[r]]

Check(n, s) == [name |-> n, status |-> s]


(***************************************************************************)
(* CDNDeploymentValidator: the check groups                                *)
(***************************************************************************)
\* checkUrlAccessible (532-551)
CheckUrlAccessible(o, name) ==
  Check(name, IF ~Throws(o) /\ ResponseOk(o) THEN "passed" ELSE "failed")

\* checkCORSHeaders (553-573)
CheckCORSHeaders(o) ==
  Check("cors-headers", IF Throws(o) THEN "failed" ELSE IF HasHeaders(o) THEN "passed" ELSE "warning")

\* checkCacheHeaders (575-595)
CheckCacheHeaders(o) ==
  Check("cache-headers", IF Throws(o) THEN "failed" ELSE IF HasHeaders(o) THEN "passed" ELSE "warning")

\* runConnectivityChecks (111-127)
RunConnectivityChecks(net) ==
  <<CheckUrlAccessible(net["HEAD /"], "connectivity-main-url"),
    CheckUrlAccessible(net["HEAD /manifest.json"], "connectivity-manifest"),
    CheckCORSHeaders(net["OPTIONS /"]),
    CheckCacheHeaders(net["HEAD / (cache)"])>>

\* fetchManifest (597-606): throws on a failed or non-2xx HEAD, on a failed GET
\* and on a body that is no JSON
FetchManifestThrows(net) ==
  \/ Throws(net["HEAD /manifest.json (fetchManifest)"])
  \/ ~ResponseOk(net["HEAD /manifest.json (fetchManifest)"])
  \/ Throws(net["GET /manifest.json"])
  \/ net["GET /manifest.json"] = "notok"

\* validateAsset (608-628)
ValidateAsset(o, name) ==
  Check(name, IF ~Throws(o) /\ ResponseOk(o) THEN "passed" ELSE "failed")

\* validateAssetIntegrity (630-645): manifest.integrity present and non-empty
ValidateAssetIntegrity(manifest) ==
  Check("asset-integrity-hashes", IF manifest = "ok" THEN "passed" ELSE "warning")

\* runAssetValidation (132-163)
RunAssetValidation(net) ==
  IF FetchManifestThrows(net)
    THEN <<Check("asset-integrity", "failed")>>
    ELSE <<Check("asset-integrity", "passed"),
           ValidateAsset(net["HEAD /core.min.js"], "asset-core-min-js"),
           ValidateAsset(net["HEAD /orchestration.min.js"], "asset-orchestration-min-js"),
           ValidateAsset(net["HEAD /plugin-framework.min.js"], "asset-plugin-framework-min-js"),
           ValidateAssetIntegrity(net["GET /manifest.json"])>>

\* runWasmValidation (168-236): the loop over wasmUrls from index i on
RECURSIVE WasmLoop(_, _)
WasmLoop(net, i) ==
  IF i > Len(WasmRequests)
    THEN <<Check("wasm-loading", "warning")>>
    ELSE LET o == net[WasmRequests[i]] IN
         IF ~Throws(o) /\ ResponseOk(o)
           THEN <<Check("wasm-loading", IF GoodHeaders(o) THEN "passed" ELSE "warning"),
                  Check("wasm-streaming-headers", IF HasHeaders(o) THEN "passed" ELSE "warning")>>
           ELSE WasmLoop(net, i + 1)

RunWasmValidation(net) == WasmLoop(net, 1)

\* runDuckDBValidation lines 263-284: the loop over duckdbAssets from index i on
RECURSIVE DuckDBWorkerChecks(_, _)
DuckDBWorkerChecks(net, i) ==
  IF i > Len(DuckDBWorkers) THEN <<>>
  ELSE LET o == net[DuckDBWorkers[i]] IN
       (IF Throws(o) THEN <<Check(DuckDBWorkerNames[i], "warning")>>
        ELSE IF ResponseOk(o) THEN <<Check(DuckDBAssetNames[i], "passed")>>
        ELSE <<>>) \o DuckDBWorkerChecks(net, i + 1)

FoundAssets(net) ==
  Cardinality({i \in 1..Len(DuckDBWorkers) :
                 ~Throws(net[DuckDBWorkers[i]]) /\ ResponseOk(net[DuckDBWorkers[i]])})

\* runDuckDBValidation lines 298-341: the configuration body
DuckDBConfigChecks(o) ==
  IF Throws(o) \/ o = "notok" THEN <<Check("duckdb-config-validation", "failed")>>
  ELSE IF o = "ok" THEN <<Check("duckdb-config-validation", "passed"),
                          Check("duckdb-hybrid-config", "passed")>>
  ELSE <<Check("duckdb-config-validation", "failed")>>

\* runDuckDBValidation (241-352)
RunDuckDBValidation(net) ==
  LET configCheck == CheckUrlAccessible(net["HEAD /duckdb-config.json"], "connectivity-duckdb-config") IN
    <<Check("duckdb-config", configCheck.status)>>
      \o DuckDBWorkerChecks(net, 1)
      \o <<Check("duckdb-hybrid-deployment", IF FoundAssets(net) >= 3 THEN "passed" ELSE "warning")>>
      \o (IF configCheck.status = "passed"
            THEN DuckDBConfigChecks(net["GET /duckdb-config.json"])
            ELSE <<>>)

\* runPluginValidation (357-402)
RunPluginValidation(net) ==
  LET fw == net["HEAD /plugin-framework.min.js (plugins)"]
      dir == net["HEAD /plugins/"] IN
    IF Throws(fw) THEN <<Check("plugin-loading", "failed")>>
    ELSE <<Check("plugin-loading", IF ResponseOk(fw) THEN "passed" ELSE "failed"),
           Check("plugin-directory", IF ~Throws(dir) /\ ResponseOk(dir) THEN "passed" ELSE "warning")>>

SecurityHeaderChecks ==
  <<"security-header-x-content-type-options", "security-header-x-frame-options",
    "security-header-x-xss-protection", "security-header-cross-origin-embedder-policy",
    "security-header-cross-origin-opener-policy">>

\* checkSensitiveInfoExposure (647-681)
CheckSensitiveInfoExposure(net) ==
  Check("sensitive-info-exposure",
        IF \E i \in 1..Len(SensitiveFiles) :
             ~Throws(net[SensitiveFiles[i]]) /\ ResponseOk(net[SensitiveFiles[i]])
          THEN "failed" ELSE "passed")

\* runSecurityValidation (407-463)
RunSecurityValidation(net, https) ==
  LET o == net["HEAD / (security)"] IN
    IF Throws(o) THEN <<Check("security-validation-error", "failed")>>
    ELSE [i \in 1..Len(SecurityHeaderChecks) |->
            Check(SecurityHeaderChecks[i],
                  IF HasHeaders(o) THEN (IF GoodHeaders(o) THEN "passed" ELSE "warning")
                  ELSE "failed")]
         \o <<Check("https-enforcement", IF https THEN "passed" ELSE "failed"),
              CheckSensitiveInfoExposure(net)>>

\* measurePerformance (468-510); compressionRatio in thousandths (1 / 1.4)
MeasurePerformance(net) ==
  LET core == net["HEAD /core.min.js (timing)"]
      wasm == net["HEAD /assets/dataprism-core.wasm (timing)"] IN
    IF Throws(core)
      THEN [loadTime |-> 0, wasmLoadTime |-> 0, totalSize |-> 0, compressionRatio |-> 0]
      ELSE [loadTime |-> Elapsed(core),
            wasmLoadTime |-> IF Throws(wasm) THEN -1 ELSE Elapsed(wasm),
            totalSize |-> IF HasHeaders(core) THEN 1024 ELSE 0,
            compressionRatio |-> IF HasHeaders(core) THEN 714 ELSE 0]

\* validatePerformanceMetrics (683-707)
ValidatePerformanceMetrics(performance) ==
  (IF performance.loadTime > 0
     THEN <<Check("performance", IF performance.loadTime < 5000 THEN "passed" ELSE "warning")>>
     ELSE <<>>)
  \o (IF performance.wasmLoadTime > 0
        THEN <<Check("performance-wasm-load", IF performance.wasmLoadTime < 2000 THEN "passed" ELSE "warning")>>
        ELSE <<>>)

AllStatus(checks, ok) == \A i \in 1..Len(checks) : checks[i].status \in ok

\* variant of determineOverallSuccess that applies the normal-mode rule always
DetermineOverallSuccessLenient(strictMode, checks, security) ==
  AllStatus(checks, {"passed", "warning"}) /\ AllStatus(security, {"passed", "warning"})

\* determineOverallSuccess (709-719)
DetermineOverallSuccess(strictMode, checks, security) ==
  IF strictMode
    THEN AllStatus(checks, {"passed"}) /\ AllStatus(security, {"passed"})
    ELSE AllStatus(checks, {"passed", "warning"}) /\ AllStatus(security, {"passed", "warning"})

\* validateDeployment (39-106); performance is a list of zero or one metrics
ValidateDeployment(options, https, net) ==
  LET performance == IF options.skipSlowTests THEN <<>> ELSE <<MeasurePerformance(net)>>
      checks == RunConnectivityChecks(net) \o RunAssetValidation(net) \o RunWasmValidation(net)
                  \o RunDuckDBValidation(net) \o RunPluginValidation(net)
                  \o (IF options.skipSlowTests THEN <<>>
                      ELSE ValidatePerformanceMetrics(performance[1]))
                  \o options.customChecks
      security == RunSecurityValidation(net, https) IN
    [kind |-> "returned",
     success |-> DetermineOverallSuccess(options.strictMode, checks, security),
     checks |-> checks, performance |-> performance, security |-> security]


(***************************************************************************)
(* CDNDeploymentValidator: one validateDeployment run                      *)
(***************************************************************************)
\* constructor (25-34): the defaults
DefaultValidatorOptions == [strictMode |-> FALSE, skipSlowTests |-> FALSE, customChecks |-> <<>>]

CustomCheckLists == {<<>>, <<Check("custom", "warning")>>}

IdleValidator ==
  [phase |-> "idle", options |-> DefaultValidatorOptions, https |-> TRUE, net |-> ProfileNet("healthy")]

NoResult == [kind |-> "none", success |-> FALSE, checks |-> <<>>, performance |-> <<>>, security |-> <<>>]

\* the ways at most k requests answer differently from the profile
RECURSIVE Deviations(_)
Deviations(k) ==
  IF k = 0 THEN {<<>>}
  ELSE Deviations(k - 1)
         \cup UNION {{d @@ (r :> o) : d \in Deviations(k - 1), o \in Outcomes(r)} : r \in Requests}

\* new CDNDeploymentValidator(options)
NewValidator ==
  /\ vin.phase = "idle"
  /\ \E strict \in BOOLEAN, skip \in BOOLEAN, custom \in CustomCheckLists :
       vin' = [vin EXCEPT !.phase = "constructed",
                          !.options = [strictMode |-> strict, skipSlowTests |-> skip,
                                       customChecks |-> custom]]
  /\ UNCHANGED vres

\* validator.validateDeployment(url) against some deployment
ValidateDeploymentCall ==
  /\ vin.phase = "constructed"
  /\ \E https \in BOOLEAN, p \in Profiles, d \in Deviations(MaxDeviations) :
       LET net == Deviate(ProfileNet(p), d) IN
         /\ vin' = [vin EXCEPT !.phase = "done", !.https = https, !.net = net]
         /\ vres' = ValidateDeployment(vin.options, https, net)

(***************************************************************************)
(* Properties of the validator (SpecVal)                                   *)
(***************************************************************************)
AllChecks(result) == result.checks \o result.security

\* C9: validateDeployment returns success true exactly when, in strict mode,
\* every returned check and security check has status passed and, in normal
\* mode, none has status failed.
C9_SuccessMatchesPolicy ==
  vres.kind = "returned"
  => (vres.success <=>
        IF vin.options.strictMode
          THEN \A i \in 1..Len(AllChecks(vres)) : AllChecks(vres)[i].status = "passed"
          ELSE \A i \in 1..Len(AllChecks(vres)) : AllChecks(vres)[i].status # "failed")

C9_Witness ==
  /\ vres.kind = "returned" /\ vin.options.strictMode /\ ~vres.success
  /\ \A i \in 1..Len(AllChecks(vres)) : AllChecks(vres)[i].status # "failed"
  /\ \E i \in 1..Len(vres.security) : vres.security[i].status = "warning"

\* the requests a check issues itself or reads its data from
OwnRequests(name) ==
  CASE name = "connectivity-main-url" -> {"HEAD /"}
    [] name = "connectivity-manifest" -> {"HEAD /manifest.json"}
    [] name = "cors-headers" -> {"OPTIONS /"}
    [] name = "cache-headers" -> {"HEAD / (cache)"}
    [] name \in {"asset-integrity", "asset-integrity-hashes"} ->
         {"HEAD /manifest.json (fetchManifest)", "GET /manifest.json"}
    [] name = "asset-core-min-js" -> {"HEAD /core.min.js"}
    [] name = "asset-orchestration-min-js" -> {"HEAD /orchestration.min.js"}
    [] name = "asset-plugin-framework-min-js" -> {"HEAD /plugin-framework.min.js"}
    [] name \in {"wasm-loading", "wasm-streaming-headers"} -> Range(WasmRequests)
    [] name = "duckdb-config" -> {"HEAD /duckdb-config.json"}
    [] name \in {"duckdb-config-validation", "duckdb-hybrid-config"} -> Range(DuckDBRequests)
    [] name = "duckdb-hybrid-deployment" -> Range(DuckDBWorkers)
    [] \E i \in 1..Len(DuckDBWorkers) : name \in {DuckDBAssetNames[i], DuckDBWorkerNames[i]} ->
         {DuckDBWorkers[i] : i \in {j \in 1..Len(DuckDBWorkers) :
                                      name \in {DuckDBAssetNames[j], DuckDBWorkerNames[j]}}}
    [] name = "plugin-loading" -> {"HEAD /plugin-framework.min.js (plugins)"}
    [] name = "plugin-directory" -> {"HEAD /plugins/"}
    [] name \in Range(SecurityHeaderChecks) \cup {"security-validation-error"} -> Range(SecurityRequests)
    [] name = "sensitive-info-exposure" -> Range(SensitiveFiles)
    [] name = "performance" -> {"HEAD /core.min.js (timing)"}
    [] name = "performance-wasm-load" -> {"HEAD /assets/dataprism-core.wasm (timing)"}
    [] OTHER -> {}

StatusesOf(result, name) ==
  {AllChecks(result)[i].status : i \in {j \in 1..Len(AllChecks(result)) : AllChecks(result)[j].name = name}}

NamesOf(result) == {AllChecks(result)[i].name : i \in 1..Len(AllChecks(result))}

\* the same deployment with every failing request answered (as o) instead
WithoutFailures(net, o) == [r \in Requests |-> IF Throws(net[r]) THEN o ELSE net[r]]

\* C10: whatever requests fail, validateDeployment returns a result in which
\* every check whose own requests did not fail is present with the status it
\* has when no request fails.
C10_FailuresStayInTheirCheck ==
  vin.phase = "done"
  => /\ vres.kind = "returned"
     /\ \A o \in {"ok", "bare", "notok"} :
          LET ref == ValidateDeployment(vin.options, vin.https, WithoutFailures(vin.net, o)) IN
            \A name \in NamesOf(ref) :
              (\A r \in OwnRequests(name) : ~Throws(vin.net[r]))
                => StatusesOf(vres, name) = StatusesOf(ref, name)

\* the check that reports on a request, under each name the code gives it
CheckNamesOf(r) ==
  CASE r = "HEAD /" -> {"connectivity-main-url"}
    [] r = "HEAD /manifest.json" -> {"connectivity-manifest"}
    [] r = "OPTIONS /" -> {"cors-headers"}
    [] r = "HEAD / (cache)" -> {"cache-headers"}
    [] r \in {"HEAD /manifest.json (fetchManifest)", "GET /manifest.json"} -> {"asset-integrity"}
    [] r = "HEAD /core.min.js" -> {"asset-core-min-js"}
    [] r = "HEAD /orchestration.min.js" -> {"asset-orchestration-min-js"}
    [] r = "HEAD /plugin-framework.min.js" -> {"asset-plugin-framework-min-js"}
    [] r \in Range(WasmRequests) -> {"wasm-loading"}
    [] r = "HEAD /duckdb-config.json" -> {"duckdb-config"}
    [] r = "GET /duckdb-config.json" -> {"duckdb-config-validation"}
    [] r \in Range(DuckDBWorkers) ->
         UNION {{DuckDBAssetNames[i], DuckDBWorkerNames[i]} :
                  i \in {j \in 1..Len(DuckDBWorkers) : DuckDBWorkers[j] = r}}
    [] r = "HEAD /plugin-framework.min.js (plugins)" -> {"plugin-loading"}
    [] r = "HEAD /plugins/" -> {"plugin-directory"}
    [] r = "HEAD / (security)" -> {"security-validation-error"}
    [] r \in Range(SensitiveFiles) -> {"sensitive-info-exposure"}
    [] r = "HEAD /core.min.js (timing)" -> {"performance"}
    [] r = "HEAD /assets/dataprism-core.wasm (timing)" -> {"performance-wasm-load"}
    [] OTHER -> {}

\* the request answers with a 2xx status
Answered(o) == ~Throws(o) /\ ResponseOk(o)

\* whether the run over net with these options sends request r
Issued(options, net, r) ==
  CASE r = "GET /manifest.json" -> Answered(net["HEAD /manifest.json (fetchManifest)"])
    [] r \in {"HEAD /core.min.js", "HEAD /orchestration.min.js", "HEAD /plugin-framework.min.js"} ->
         ~FetchManifestThrows(net)
    [] r = "HEAD /assets/dataprism_core_bg.wasm" -> ~Answered(net["HEAD /assets/dataprism-core.wasm"])
    [] r = "GET /duckdb-config.json" -> Answered(net["HEAD /duckdb-config.json"])
    [] r = "HEAD /plugins/" -> ~Throws(net["HEAD /plugin-framework.min.js (plugins)"])
    [] r \in Range(SensitiveFiles) ->
         /\ ~Throws(net["HEAD / (security)"])
         /\ \A i \in 1..Len(SensitiveFiles) :
              (\E j \in (i + 1)..Len(SensitiveFiles) : SensitiveFiles[j] = r)
                => ~Answered(net[SensitiveFiles[i]])
    [] r = "HEAD /core.min.js (timing)" -> ~options.skipSlowTests
    [] r = "HEAD /assets/dataprism-core.wasm (timing)" ->
         ~options.skipSlowTests /\ ~Throws(net["HEAD /core.min.js (timing)"])
    [] OTHER -> TRUE

\* C11: whenever the request of a check throws, that check is in the result
\* with status failed, in every check group (WASM, plugin directory, DuckDB
\* assets and the sensitive-file probe included).
C11_ThrownRequestFailsCheck ==
  vin.phase = "done"
  => \A r \in Requests :
       (Issued(vin.options, vin.net, r) /\ Throws(vin.net[r]))
         => \E name \in CheckNamesOf(r) : "failed" \in StatusesOf(vres, name)


(***************************************************************************)
(* withRetry: BaseDeploymentProvider (part_004) and CDNPluginLoader        *)
(***************************************************************************)
MaxRetriesBound == 6   \* largest maxRetries tried; the caps bite from attempt 4 / 5 on

RetryImpls == {"base", "loader"}

\* a rejection with undefined (Promise.reject()); msg is String(error)
ThrownUndefined == [msg |-> "undefined", isError |-> FALSE]

\* what an attempt can throw: an Error, a string, or undefined
Thrown == {[msg |-> "e1", isError |-> TRUE], [msg |-> "e2", isError |-> FALSE], ThrownUndefined}

NoError == [msg |-> UNDEF, isError |-> FALSE]   \* let lastError, still unassigned

NotThrown == [msg |-> "", isError |-> FALSE]    \* entry of hist for an attempt that returned

NotPassed == -1   \* a numeric argument or option that is left undefined

\* part_004 line 244: maxRetries = this.options.retries || 3 when not passed
BaseMaxRetries(arg, optRetries) ==
  IF arg # NotPassed THEN arg ELSE IF optRetries \in {NotPassed, 0} THEN 3 ELSE optRetries

\* plugin-loader.ts line 405 with the constructor default of line 81:
\* options.retries || this.options.retries
LoaderMaxRetries(arg, optRetries) ==
  IF arg \notin {NotPassed, 0} THEN arg ELSE IF optRetries = NotPassed THEN 3 ELSE optRetries

RetryCap(impl) == IF impl = "base" THEN 10000 ELSE 5000

RECURSIVE Pow2(_)
Pow2(n) == IF n = 0 THEN 1 ELSE 2 * Pow2(n - 1)

Min(a, b) == IF a < b THEN a ELSE b

\* variant of RetryDelay without the cap
RetryDelayUncapped(attempt, cap) == 1000 * Pow2(attempt - 1)

\* Math.min(1000 * Math.pow(2, attempt - 1), cap)
RetryDelay(attempt, cap) == Min(1000 * Pow2(attempt - 1), cap)

\* lastError = error (part_004 252); error instanceof Error ? error :
\* new Error(String(error)) (plugin-loader.ts 478)
LastError(impl, e) == IF impl = "base" THEN e ELSE [msg |-> e.msg, isError |-> TRUE]

RetryIdle ==
  rt = [pc |-> "idle", impl |-> "base", arg |-> NotPassed, opt |-> NotPassed,
        maxRetries |-> 0, attempt |-> 0, hist |-> <<>>,
        waits |-> <<>>, lastError |-> NoError, error |-> NoError]

\* withRetry(operation, maxRetries) is called: arg is the maxRetries given by
\* the caller, opt the retries option given to the constructor
WithRetryCall ==
  /\ rt.pc = "idle"
  /\ \E impl \in RetryImpls, arg \in {NotPassed} \cup 0..MaxRetriesBound, opt \in {NotPassed, 0, 2} :
       rt' = [rt EXCEPT !.pc = "loop", !.impl = impl, !.arg = arg, !.opt = opt, !.attempt = 1,
                        !.maxRetries = IF impl = "base" THEN BaseMaxRetries(arg, opt)
                                       ELSE LoaderMaxRetries(arg, opt)]

\* for (...; attempt <= maxRetries; ...) and the throw lastError! after the loop
RetryLoop ==
  /\ rt.pc = "loop"
  /\ rt' = IF rt.attempt <= rt.maxRetries
             THEN [rt EXCEPT !.pc = "try"]
             ELSE [rt EXCEPT !.pc = "rejected", !.error = rt.lastError]

\* part_004 line 253 reads error.message inside the catch: with undefined
\* caught this throws a TypeError out of withRetry
WarnThrows(impl, e) == impl = "base" /\ e = ThrownUndefined

\* try { return await operation() } catch (error) { ... }; hist records what
\* each attempt threw, NotThrown for an attempt that returned
RetryTry ==
  /\ rt.pc = "try"
  /\ \/ rt' = [rt EXCEPT !.pc = "returned", !.hist = Append(@, NotThrown)]
     \/ \E e \in Thrown :
          rt' = IF WarnThrows(rt.impl, e)
                  THEN [rt EXCEPT !.hist = Append(@, e),
                                  !.lastError = LastError(rt.impl, e),
                                  !.pc = "rejected",
                                  !.error = [msg |-> ErrReadMessage, isError |-> TRUE]]
                  ELSE [rt EXCEPT !.hist = Append(@, e),
                                  !.lastError = LastError(rt.impl, e),
                                  !.pc = IF rt.attempt < rt.maxRetries THEN "wait" ELSE "loop",
                                  !.attempt = IF rt.attempt < rt.maxRetries THEN @ ELSE @ + 1,
                                  !.waits = IF rt.attempt < rt.maxRetries
                                              THEN Append(@, RetryDelay(rt.attempt, RetryCap(rt.impl)))
                                              ELSE @]

\* the setTimeout of the backoff fires; attempt++
RetryTimer ==
  /\ rt.pc = "wait"
  /\ rt' = [rt EXCEPT !.pc = "loop", !.attempt = @ + 1]

\* C12: withRetry runs the operation at most maxRetries times, stops at the
\* first attempt that succeeds, waits min(1000 * 2^(attempt-1), cap) ms after
\* failed attempt number attempt only when another attempt follows (cap 10000
\* in the base provider, 5000 in the plugin loader), and after the last failed
\* attempt rejects with that attempt's error.
C12_RetryBackoff ==
  LET n == Len(rt.hist)
      failed == {i \in 1..n : rt.hist[i] # NotThrown} IN
    /\ n <= rt.maxRetries
    /\ (rt.pc # "idle" /\ rt.arg = NotPassed /\ rt.opt = NotPassed) => rt.maxRetries = 3
    /\ \A i \in 1..n : rt.hist[i] = NotThrown => (i = n /\ rt.pc = "returned")
    /\ rt.pc = "returned" => (rt.hist[n] = NotThrown /\ Len(rt.waits) = n - 1)
    /\ \A i \in 1..Len(rt.waits) :
         /\ i \in failed /\ i < rt.maxRetries
         /\ rt.waits[i] = (IF 1000 * Pow2(i - 1) < RetryCap(rt.impl)
                             THEN 1000 * Pow2(i - 1) ELSE RetryCap(rt.impl))
    /\ rt.pc \in {"try", "loop", "rejected"} => Len(rt.waits) = Cardinality(failed \ {rt.maxRetries})
    /\ (rt.pc = "rejected" /\ n > 0)
         => (n = rt.maxRetries /\ failed = 1..n /\ rt.error.msg = rt.hist[n].msg)

C12_Witness ==
  /\ rt.pc = "rejected" /\ rt.impl = "base" /\ Len(rt.hist) = rt.maxRetries
  /\ Len(rt.waits) >= 5
  /\ SubSeq(rt.waits, 1, 5) = <<1000, 2000, 4000, 8000, 10000>>
  /\ rt.error.msg = "e2"


(***************************************************************************)
(* Command-line entry points: dataprism-deploy (part_002 746-1084), main  *)
(* of the orchestrator file (part_003 340-416), cli-minimal (part_002)     *)
(***************************************************************************)
NotExited == -1   \* the process is still running

CliIdle ==
  cli = [entry |-> "none", command |-> "none", verbose |-> FALSE, exit |-> NotExited,
         out |-> <<>>, curl |-> FALSE, deployed |-> FALSE, timers |-> <<>>]

\* console output of the catch of CDNDeploymentOrchestrator.deploy (102-105)
OrchestratorErrorOutput(o) ==
  IF o.kind = "rejected" THEN << <<"Deployment failed:", o.error>> >> ELSE <<>>

\* dataprism-deploy, action of the deploy command (part_002 769-804): what it
\* prints and the exit code, given how orchestrator.deploy(options) ended
DeployAction(o, verbose) ==
  IF o.kind = "rejected"
    THEN [out |-> << <<"Error: ", o.error>> >> \o (IF verbose THEN << <<"error.stack">> >> ELSE <<>>),
          exit |-> 1]
  ELSE IF o.success
    THEN [out |-> << <<"Deployment successful!">>, <<"ID: ", o.deploymentId>> >>, exit |-> 0]
  ELSE [out |-> << <<"Deployment failed: ", o.error>> >>
                  \o (IF Len(o.logs) > 0 THEN << <<"Logs:">> >> \o o.logs ELSE <<>>),
        exit |-> 1]

\* main of the orchestrator file, case 'deploy' (part_003 380-383, 412-415)
MainDeploy(o) ==
  IF o.kind = "rejected" THEN [out |-> << <<"Error:", o.error>> >>, exit |-> 1]
  ELSE [out |-> <<>>, exit |-> 0]

\* dataprism-deploy, action of the rollback command (part_002 851-868)
RollbackAction(o) ==
  IF o.kind = "rejected" THEN [out |-> << <<"Error: ", o.error>> >>, exit |-> 1]
  ELSE IF o.success THEN [out |-> << <<"Rollback successful!">> >>, exit |-> 0]
  ELSE [out |-> << <<"Rollback failed: ", o.error>> >>, exit |-> 1]

\* main of the orchestrator file, case 'rollback' (part_003 395-402, 412-415)
MainRollback(o) ==
  IF o.kind = "rejected" THEN [out |-> << <<"Error:", o.error>> >>, exit |-> 1]
  ELSE [out |-> <<>>, exit |-> 0]

CliEnds(entry, command, verbose, r) ==
  cli' = [cli EXCEPT !.entry = entry, !.command = command, !.verbose = verbose,
                     !.exit = r.exit, !.out = r.out]

\* the deploy command ends, once orchestrator.deploy has settled
CliDeploy ==
  /\ pc = "done" /\ call.op = "deploy" /\ cli.exit = NotExited
  /\ \E verbose \in BOOLEAN :
       \/ CliEnds("dataprism-deploy", "deploy", verbose,
                  [out |-> OrchestratorErrorOutput(outcome) \o DeployAction(outcome, verbose).out,
                   exit |-> DeployAction(outcome, verbose).exit])
       \/ /\ ~verbose
          /\ CliEnds("main", "deploy", FALSE,
                     [out |-> OrchestratorErrorOutput(outcome) \o MainDeploy(outcome).out,
                      exit |-> MainDeploy(outcome).exit])
  /\ UNCHANGED orchVars

\* the rollback command ends, once orchestrator.rollback has settled
CliRollback ==
  /\ pc = "done" /\ call.op = "rollback" /\ cli.exit = NotExited
  /\ \/ CliEnds("dataprism-deploy", "rollback", FALSE, RollbackAction(outcome))
     \/ CliEnds("main", "rollback", FALSE, MainRollback(outcome))
  /\ UNCHANGED orchVars

\* dataprism-deploy, action of the validate command (part_002 816-841);
\* validateDeployment never throws
ValidateAction(result) == [out |-> << <<"Validation Results:">> >>, exit |-> IF result.success THEN 0 ELSE 1]

\* main of the orchestrator file, case 'validate' (part_003 385-393): the
\* result of orchestrator.validate is dropped
MainValidate(result) == [out |-> <<>>, exit |-> 0]

\* the validate command ends, once validateDeployment has returned; main goes
\* through orchestrator.validate (108-117), which sets strictMode only
CliValidate ==
  /\ vin.phase = "done" /\ cli.exit = NotExited
  /\ vin.options.customChecks = <<>>
  /\ \/ \E verbose \in BOOLEAN :
          CliEnds("dataprism-deploy", "validate", verbose, ValidateAction(vres))
     \/ /\ ~vin.options.skipSlowTests
        /\ CliEnds("main", "validate", FALSE, MainValidate(vres))
  /\ UNCHANGED valVars

\* cli-minimal validateDeployment (part_002 612-657) under case 'validate'
\* (698-702): mainUrl tells whether curl reached the main URL; the other three
\* probes only log
MinimalValidateDeployment(mainUrl) ==
  IF mainUrl THEN [success |-> TRUE, out |-> << <<"Main URL accessible">>, <<"Basic validation passed">> >>]
  ELSE [success |-> FALSE, out |-> << <<"Main URL not accessible">> >>]

\* node cli-minimal.js validate <url>: the returned object is dropped and the
\* process ends on its own
CliMinimalValidate ==
  /\ vin.phase = "idle" /\ cli.exit = NotExited
  /\ \E mainUrl \in BOOLEAN :
       cli' = [cli EXCEPT !.entry = "cli-minimal", !.command = "validate", !.curl = mainUrl,
                          !.exit = 0, !.out = MinimalValidateDeployment(mainUrl).out]
  /\ UNCHANGED valVars

\* cli-minimal error(message) (part_002 390-393): prints and process.exit(1)
MinimalError(message) == << <<"ERROR: ", message>> >>

ErrReadSplit == "Cannot read properties of undefined (reading 'split')"

\* cli-minimal deployToGitHubPages(options) (part_002 513-610)
\*   assets  the assets directory: missing, empty, incomplete (an essential
\*           file is not there) or complete
\*   git     fails (a command before the commit fails), unchanged (nothing is
\*           staged, so git diff --cached exits 0 and "No changes to deploy"
\*           is logged before the return value is built; a git commit fails),
\*           pushFails, or pushed
\*   repository, branch   the --repository and --branch arguments
\* returned tells whether the function returns its success object; pushed is
\* the branch that was force-pushed
MinimalDeployToGitHubPages(assets, git, repository, branch) ==
  LET b == IF branch \in {UNDEF, ""} THEN "gh-pages" ELSE branch
      failed(logged, msg, remote) ==
        [returned |-> FALSE, pushed |-> remote,
         out |-> << <<"Deploying to GitHub Pages...">> >> \o logged
                   \o << <<"ERROR: Deployment failed: ", msg>> >>] IN
    CASE assets = "missing" ->
           [returned |-> FALSE, pushed |-> "none",
            out |-> << <<"Deploying to GitHub Pages...">> >> \o MinimalError("Assets directory not found")]
      [] assets = "empty" ->
           [returned |-> FALSE, pushed |-> "none",
            out |-> << <<"Deploying to GitHub Pages...">> >> \o MinimalError("Assets directory is empty")]
      [] assets = "incomplete" ->
           [returned |-> FALSE, pushed |-> "none",
            out |-> << <<"Deploying to GitHub Pages...">> >> \o MinimalError("Missing essential CDN files")]
      [] git = "fails" -> failed(<<>>, "Command failed: git checkout", "none")
      [] git = "unchanged" ->
           IF repository # UNDEF
             THEN [returned |-> TRUE, pushed |-> "none",
                   out |-> << <<"Deploying to GitHub Pages...">>, <<"No changes to deploy">> >>]
             ELSE failed(<< <<"No changes to deploy">> >>, "Command failed: git commit", "none")
      [] git = "pushFails" -> failed(<<>>, "Command failed: git push", "none")
      [] OTHER ->
           IF repository # UNDEF
             THEN [returned |-> TRUE, pushed |-> b,
                   out |-> << <<"Deploying to GitHub Pages...">>, <<"Deployed to GitHub Pages">> >>]
             ELSE failed(<<>>, ErrReadSplit, b)

MinimalAssetDirs == {"missing", "empty", "incomplete", "complete"}
MinimalGitRuns   == {"fails", "unchanged", "pushFails", "pushed"}

\* node cli-minimal.js deploy [--repository r] [--branch b] [--no-validate]
\* (part_002 687-696): after a returned deploy, unless --no-validate is
\* given, a 5000 ms timer is set and the process stays alive for it; a deploy
\* that fails ends the process in error()
CliMinimalDeploy ==
  /\ pc = "idle" /\ cli.entry = "none" /\ cli.exit = NotExited
  /\ \E assets \in MinimalAssetDirs, git \in MinimalGitRuns, repository \in {UNDEF, "cli/repo"},
        branch \in {UNDEF, "", "main"}, validate \in BOOLEAN :
       LET result == MinimalDeployToGitHubPages(assets, git, repository, branch)
           timed  == result.returned /\ validate IN
         /\ pushed' = result.pushed
         /\ cli' = [cli EXCEPT !.entry = "cli-minimal", !.command = "deploy",
                               !.deployed = result.returned,
                               !.timers = IF timed THEN <<5000>> ELSE <<>>,
                               !.exit = IF timed THEN NotExited
                                        ELSE IF result.returned THEN 0 ELSE 1,
                               !.out = result.out]
  /\ UNCHANGED <<pc, call, config, trace, conn, ppc, plogs, presult, staged, outcome>>

\* the 5000 ms timer of the deploy command fires (part_002 692-694):
\* validateDeployment(result.url) runs, its result is dropped, and the process
\* ends on its own
CliMinimalTimer ==
  /\ cli.entry = "cli-minimal" /\ cli.command = "deploy"
  /\ cli.timers = <<5000>> /\ cli.exit = NotExited
  /\ \E mainUrl \in BOOLEAN :
       cli' = [cli EXCEPT !.curl = mainUrl, !.timers = <<>>, !.exit = 0,
                          !.out = @ \o MinimalValidateDeployment(mainUrl).out]
  /\ UNCHANGED orchVars

\* whether the operation the command ran succeeded
CliOperationSucceeded ==
  CASE cli.command = "deploy" /\ cli.entry = "cli-minimal" -> cli.deployed
    [] cli.command \in {"deploy", "rollback"} -> outcome.kind = "resolved" /\ outcome.success
    [] cli.command = "validate" /\ cli.entry = "cli-minimal" -> MinimalValidateDeployment(cli.curl).success
    [] cli.command = "validate" -> vres.kind = "returned" /\ vres.success
    [] OTHER -> FALSE

\* C13: every CLI command run (deploy, validate, rollback) of every entry
\* point exits with code 1 when the operation fails and with code 0 only when
\* it succeeds.
C13_ExitCodeReflectsOutcome ==
  cli.exit # NotExited => (cli.exit = 0 <=> CliOperationSucceeded)

\* C14: whenever a deploy fails after the provider has accumulated log
\* entries, the deploy command's output contains those entries.
C14_FailureOutputHasProviderLogs ==
  (/\ cli.exit # NotExited /\ cli.command = "deploy" /\ cli.entry = "dataprism-deploy"
   /\ presult.kind = "returned" /\ ~presult.success)
  => /\ cli.exit = 1
     /\ \A i \in 1..Len(presult.logs) : Has(cli.out, presult.logs[i])


(***************************************************************************)
(* Manifest plugin (tools/build/jekyll-plugin.ts, manifestPlugin)          *)
(***************************************************************************)
MaxFiles == 2   \* files in one bundle
MaxRuns  == 2   \* generateBundle invocations observed

\* file names of a build and the type rollup gives each of them
FileNames ==
  {"core.js", "core.min.js", "orchestration.min.js", "plugin-framework.min.js",
   "plugin-csv.js", "engine.wasm", "styles.css"}

FileType(filename) ==
  IF filename \in {"plugin-csv.js", "engine.wasm", "styles.css"} THEN "asset" ELSE "chunk"

\* filename.includes(pattern), for the patterns the plugin looks for
Includes(filename, pattern) ==
  pattern \in
    (CASE filename = "core.js" -> {"core"}
       [] filename = "core.min.js" -> {"core", "core.min.js"}
       [] filename = "orchestration.min.js" -> {"orchestration", "orchestration.min.js"}
       [] filename = "plugin-framework.min.js" -> {"plugin", "plugin-framework", "plugin-framework.min.js"}
       [] filename = "plugin-csv.js" -> {"plugin"}
       [] filename = "engine.wasm" -> {"wasm"}
       [] OTHER -> {})

EndsWithWasm(filename) == filename = "engine.wasm"

\* contents a file can have, their length in bytes and their SHA-384 digest
\* (a digest is taken to identify the content)
Contents == {"small", "large"}

ContentLength(content) == IF content = "small" THEN 1024 ELSE 3 * 1024 * 1024

Sha384(content) == <<"sha384", content>>

\* createAssetInfo (149-166)
CreateAssetInfo(filename, content) ==
  [filename |-> filename, size |-> ContentLength(content),
   compressedSize |-> (ContentLength(content) * 7) \div 10, hash |-> Sha384(content)]

NoAsset == [filename |-> UNDEF, size |-> 0, compressedSize |-> 0, hash |-> <<>>]

\* Map.set: a new key is appended, an existing key keeps its position
MapSet(map, info) ==
  IF \E i \in 1..Len(map) : map[i].filename = info.filename
    THEN [i \in 1..Len(map) |-> IF map[i].filename = info.filename THEN info ELSE map[i]]
    ELSE Append(map, info)

\* the closure state of manifestPlugin(options) (99-102)
NewPluginState == [assetMap |-> <<>>, pluginAssets |-> <<>>, wasmAssets |-> <<>>]

\* generateBundle lines 108-128: the forEach over the bundle entries from i on
RECURSIVE ProcessBundle(_, _, _)
ProcessBundle(st, bundle, i) ==
  IF i > Len(bundle) THEN st
  ELSE LET e == bundle[i]
           info == CreateAssetInfo(e.filename, e.content)
           next == IF FileType(e.filename) = "asset"
                     THEN [assetMap |-> MapSet(st.assetMap, info),
                           pluginAssets |-> IF ~EndsWithWasm(e.filename) /\ Includes(e.filename, "plugin")
                                              THEN Append(st.pluginAssets, info) ELSE st.pluginAssets,
                           wasmAssets |-> IF EndsWithWasm(e.filename)
                                            THEN Append(st.wasmAssets, info) ELSE st.wasmAssets]
                     ELSE [st EXCEPT !.assetMap = MapSet(st.assetMap, info)]
       IN ProcessBundle(next, bundle, i + 1)

\* assetsList.find(a => a.filename.includes(pattern)) || fallback
FindAsset(assetsList, pattern, fallback) ==
  IF \E i \in 1..Len(assetsList) : Includes(assetsList[i].filename, pattern)
    THEN assetsList[CHOOSE i \in 1..Len(assetsList) :
                      /\ Includes(assetsList[i].filename, pattern)
                      /\ \A j \in 1..(i - 1) : ~Includes(assetsList[j].filename, pattern)]
    ELSE fallback

\* variant of generateIntegrityMap that leaves the .wasm files out
GenerateIntegrityMapNoWasm(assets, wasm, plugins) ==
  [f \in {assets[i].filename : i \in {j \in 1..Len(assets) : ~EndsWithWasm(assets[j].filename)}} |->
     <<"sha384-", (CHOOSE a \in Range(assets) : a.filename = f).hash>>]

\* generateIntegrityMap (252-264): one key per entry of the assets map
GenerateIntegrityMap(assets, wasm, plugins) ==
  [f \in {assets[i].filename : i \in 1..Len(assets)} |->
     <<"sha384-", (CHOOSE a \in Range(assets) : a.filename = f).hash>>]

\* sha256 of the joined asset hashes, first 8 hex characters (204-207); the
\* digest is taken to identify the joined string
BuildHash(assets) == [i \in 1..Len(assets) |-> assets[i].hash]

RECURSIVE SumSizes(_, _)
SumSizes(assets, i) == IF i > Len(assets) THEN 0 ELSE assets[i].size + SumSizes(assets, i + 1)

\* generateManifest (198-250)
GenerateManifest(assets, plugins, wasm) ==
  LET coreAsset == FindAsset(assets, "core", IF Len(assets) > 0 THEN assets[1] ELSE NoAsset) IN
    [buildHash |-> BuildHash(assets),
     assets |-> [core |-> coreAsset,
                 orchestration |-> FindAsset(assets, "orchestration", coreAsset),
                 pluginFramework |-> FindAsset(assets, "plugin-framework", coreAsset),
                 plugins |-> plugins, wasm |-> wasm],
     integrity |-> GenerateIntegrityMap(assets, wasm, plugins),
     totalBundleSize |-> SumSizes(assets, 1)]

\* SIZE_LIMITS (types.ts 157-164), in bytes, in key order
SIZE_LIMITS ==
  <<[pattern |-> "core.min.js", limit |-> 2 * 1024 * 1024],
    [pattern |-> "orchestration.min.js", limit |-> 800 * 1024],
    [pattern |-> "plugin-framework.min.js", limit |-> 500 * 1024],
    [pattern |-> "wasm", limit |-> 1536 * 1024],
    [pattern |-> "plugin", limit |-> 500 * 1024],
    [pattern |-> "total", limit |-> 5 * 1024 * 1024]>>

SizeLimitTotal == SIZE_LIMITS[6].limit

\* validateBundleSizes (325-346): the issues it collects; it warns when the
\* list is not empty and never throws
ValidateBundleSizes(assets) ==
  LET perFile(a) ==
        SelectSeq([k \in 1..Len(SIZE_LIMITS) |->
                     [filename |-> a.filename, pattern |-> SIZE_LIMITS[k].pattern,
                      over |-> Includes(a.filename, SIZE_LIMITS[k].pattern) /\ a.size > SIZE_LIMITS[k].limit]],
                  LAMBDA x : x.over)
      RECURSIVE all(_)
      all(i) == IF i > Len(assets) THEN <<>> ELSE perFile(assets[i]) \o all(i + 1)
  IN all(1) \o (IF SumSizes(assets, 1) > SizeLimitTotal
                  THEN <<[filename |-> "Total bundle size", pattern |-> "total", over |-> TRUE]>>
                  ELSE <<>>)

\* bundles of exactly k entries, in every enumeration order
RECURSIVE BundlesOfLen(_)
BundlesOfLen(k) ==
  IF k = 0 THEN {<<>>}
  ELSE UNION {{Append(b, [filename |-> f, content |-> c]) :
                 f \in FileNames \ {b[i].filename : i \in 1..Len(b)}, c \in Contents} :
              b \in BundlesOfLen(k - 1)}

Bundles == UNION {BundlesOfLen(k) : k \in 0..MaxFiles}

ManifestIdle == mf = [plugin |-> NewPluginState, fresh |-> TRUE, runs |-> <<>>]

\* manifestPlugin(options): a new plugin instance (another build)
ManifestPlugin ==
  /\ ~mf.fresh
  /\ Len(mf.runs) < MaxRuns
  /\ mf' = [mf EXCEPT !.plugin = NewPluginState, !.fresh = TRUE]

\* generateBundle(opts, bundle) (107-145) on the current instance; runs keeps
\* what each invocation was given, emitted and warned about
GenerateBundle ==
  /\ Len(mf.runs) < MaxRuns
  /\ \E bundle \in Bundles :
       LET st == ProcessBundle(mf.plugin, bundle, 1) IN
         mf' = [plugin |-> st, fresh |-> FALSE,
                runs |-> Append(mf.runs,
                                [bundle |-> bundle, first |-> mf.fresh,
                                 manifest |-> GenerateManifest(st.assetMap, st.pluginAssets, st.wasmAssets),
                                 issues |-> ValidateBundleSizes(st.assetMap)])]


(***************************************************************************)
(* Properties of the manifest plugin (SpecManifest)                        *)
(***************************************************************************)
\* filenames of the assets a manifest references under manifest.assets
ReferencedFiles(manifest) ==
  ({manifest.assets.core.filename, manifest.assets.orchestration.filename,
    manifest.assets.pluginFramework.filename} \ {UNDEF})
    \cup {manifest.assets.plugins[i].filename : i \in 1..Len(manifest.assets.plugins)}
    \cup {manifest.assets.wasm[i].filename : i \in 1..Len(manifest.assets.wasm)}

\* the (filename, content) pairs of a bundle, whatever their order
FilesOf(bundle) == {bundle[i] : i \in 1..Len(bundle)}

\* C15: in every manifest produced by generateManifest, every filename key of
\* manifest.integrity is the filename of an asset present in manifest.assets.
C15_IntegrityKeysAreAssets ==
  \A r \in 1..Len(mf.runs) :
    DOMAIN mf.runs[r].manifest.integrity \subseteq ReferencedFiles(mf.runs[r].manifest)

\* C16: in every manifest produced by generateManifest, every asset referenced
\* in manifest.assets has an entry in manifest.integrity under its filename
\* (one entry: integrity is a map); for core, orchestration and
\* pluginFramework the entry holds the digest of that asset.
C16_AssetsHaveIntegrity ==
  \A r \in 1..Len(mf.runs) :
    LET m == mf.runs[r].manifest IN
      /\ ReferencedFiles(m) \subseteq DOMAIN m.integrity
      /\ \A a \in {m.assets.core, m.assets.orchestration, m.assets.pluginFramework} :
           a.filename # UNDEF => m.integrity[a.filename] = <<"sha384-", a.hash>>

C16_Witness ==
  \E r \in 1..Len(mf.runs) :
    LET m == mf.runs[r].manifest IN
      /\ Len(m.assets.wasm) > 0 /\ Len(m.assets.plugins) > 0
      /\ m.assets.core.filename = "core.min.js"
      /\ Cardinality(DOMAIN m.integrity) >= 3

\* C17: two runs of the manifest builder over the same files with the same
\* content yield the same buildHash, whatever the order of the bundle.
C17_BuildHashIgnoresOrder ==
  \A r1, r2 \in 1..Len(mf.runs) :
    (/\ mf.runs[r1].first /\ mf.runs[r2].first
     /\ FilesOf(mf.runs[r1].bundle) = FilesOf(mf.runs[r2].bundle))
    => mf.runs[r1].manifest.buildHash = mf.runs[r2].manifest.buildHash

\* C20: size validation never halts the build and warns whenever a limit of
\* the table is violated: the asset classified as core over 2MB, the
\* plugin-framework asset or a plugin over 500KB, a wasm file over 1.5MB, the
\* total over 5MB.
C20_SizeViolationsWarn ==
  \A r \in 1..Len(mf.runs) :
    LET m == mf.runs[r].manifest
        violated ==
          \/ m.assets.core.size > 2 * 1024 * 1024
          \/ m.assets.pluginFramework.size > 500 * 1024 /\ Includes(m.assets.pluginFramework.filename, "plugin-framework")
          \/ \E i \in 1..Len(m.assets.plugins) : m.assets.plugins[i].size > 500 * 1024
          \/ \E i \in 1..Len(m.assets.wasm) : m.assets.wasm[i].size > 1536 * 1024
          \/ m.totalBundleSize > 5 * 1024 * 1024
    IN violated => Len(mf.runs[r].issues) > 0


\* the filename a category must carry for a bundle: that of the first file
\* whose name contains the pattern, else that of the first file of the bundle
ExpectedCategoryFile(bundle, pattern) ==
  LET matches == {i \in 1..Len(bundle) : Includes(bundle[i].filename, pattern)} IN
    IF matches # {} THEN bundle[CHOOSE i \in matches : \A j \in matches : i <= j].filename
    ELSE IF Len(bundle) > 0 THEN bundle[1].filename
    ELSE UNDEF

\* C21: generateManifest assigns to core, orchestration and pluginFramework
\* the first asset whose filename contains "core", "orchestration" or
\* "plugin-framework", and the first asset of the bundle when none matches.
C21_CategoryFallsBackToFirstAsset ==
  \A r \in 1..Len(mf.runs) :
    mf.runs[r].first
      => LET m == mf.runs[r].manifest
             b == mf.runs[r].bundle IN
           /\ m.assets.core.filename = ExpectedCategoryFile(b, "core")
           /\ m.assets.orchestration.filename = ExpectedCategoryFile(b, "orchestration")
           /\ m.assets.pluginFramework.filename = ExpectedCategoryFile(b, "plugin-framework")

\* C29: after any number of generateBundle invocations on one instance, the
\* emitted manifest's wasm[] and plugins[] hold at most one entry per filename
\* and only files of the bundle passed to that invocation.
C29_ListsMatchTheBundle ==
  \A r \in 1..Len(mf.runs) :
    LET m == mf.runs[r].manifest
        names == {mf.runs[r].bundle[i].filename : i \in 1..Len(mf.runs[r].bundle)} IN
      /\ \A i, j \in 1..Len(m.assets.wasm) : m.assets.wasm[i].filename = m.assets.wasm[j].filename => i = j
      /\ \A i, j \in 1..Len(m.assets.plugins) :
           m.assets.plugins[i].filename = m.assets.plugins[j].filename => i = j
      /\ \A i \in 1..Len(m.assets.wasm) : m.assets.wasm[i].filename \in names
      /\ \A i \in 1..Len(m.assets.plugins) : m.assets.plugins[i].filename \in names


(***************************************************************************)
(* prepareAssetBundle in detail: the recursive scan of the assets          *)
(* directory (part_003 172-228)                                            *)
(***************************************************************************)
MaxEntries == 2   \* entries of one directory (besides manifest.json)

\* what a directory entry can be:
\*   file        a regular file that can be read
\*   unreadable  a regular file whose readFileSync throws (EACCES)
\*   dangling    an entry whose statSync throws (a symlink to nothing)
\*   other       neither file nor directory (a socket, a FIFO)
\*   dir         a directory, with its own entries
FileSizes == {0, 3, 5}

LeafEntries ==
  {[kind |-> "file", size |-> z, entries |-> <<>>] : z \in FileSizes}
    \cup {[kind |-> k, size |-> 4, entries |-> <<>>] : k \in {"unreadable", "dangling", "other"}}

\* sequences of at most MaxEntries elements of S
SeqsUpTo(S) == UNION {[1..n -> S] : n \in 0..MaxEntries}

SubDirectories == {[kind |-> "dir", size |-> 0, entries |-> e] : e \in SeqsUpTo(LeafEntries)}

\* the assets directory: missing, or a tree two levels deep; manifest tells
\* whether it holds a manifest.json and whether that file parses
AssetTrees ==
  {[exists |-> FALSE, entries |-> <<>>, manifest |-> "none"]}
    \cup {[exists |-> TRUE, entries |-> e, manifest |-> m] :
            e \in SeqsUpTo(LeafEntries \cup SubDirectories), m \in {"none", "valid", "malformed"}}

ManifestJsonEntry == [kind |-> "file", size |-> 2, entries |-> <<>>]

\* readdirSync(assetsDir): the entries, manifest.json among them when it exists
RootEntries(tree) ==
  (IF tree.manifest = "none" THEN <<>> ELSE <<ManifestJsonEntry>>) \o tree.entries

EmptyScan == [files |-> <<>>, totalSize |-> 0, threw |-> FALSE, error |-> UNDEF]

\* variant of AddFile that leaves totalSize alone
AddFileOnly(acc, path, size) == [acc EXCEPT !.files = Append(@, [path |-> path, size |-> size])]

\* lines 194-202: files.push({path, ..., size: stats.size}); totalSize += stats.size
AddFile(acc, path, size) ==
  [acc EXCEPT !.files = Append(@, [path |-> path, size |-> size]), !.totalSize = @ + size]

\* scanDirectory (181-205): the for loop over entries from index i on; acc is
\* the files array and totalSize so far, threw ends the scan; an entry is
\* named by its position in its directory
RECURSIVE ScanDirectory(_, _, _, _)
ScanDirectory(entries, relativePath, i, acc) ==
  IF acc.threw \/ i > Len(entries) THEN acc
  ELSE LET e == entries[i]
           path == Append(relativePath, i)
           step ==
             CASE e.kind = "dangling" -> [acc EXCEPT !.threw = TRUE, !.error = ErrAssetRead]
               [] e.kind = "dir" -> ScanDirectory(e.entries, path, 1, acc)
               [] e.kind = "unreadable" -> [acc EXCEPT !.threw = TRUE, !.error = ErrAssetRead]
               [] e.kind = "file" -> AddFile(acc, path, e.size)
               [] OTHER -> acc
       IN ScanDirectory(entries, relativePath, i + 1, step)

\* prepareAssetBundle(assetsDir) (172-228): the bundle, or the error thrown
PrepareAssetBundleResult(tree) ==
  IF ~tree.exists THEN [EmptyScan EXCEPT !.threw = TRUE, !.error = ErrAssetsMissing]
  ELSE LET scan == ScanDirectory(RootEntries(tree), <<>>, 1, EmptyScan) IN
         IF scan.threw THEN scan
         ELSE IF tree.manifest = "malformed"
           THEN [scan EXCEPT !.threw = TRUE, !.error = ErrManifestJson]
         ELSE scan

NoTree == [exists |-> FALSE, entries |-> <<>>, manifest |-> "none"]

ScanIdle == sc = [pc |-> "idle", tree |-> NoTree, result |-> EmptyScan]

\* the build leaves some tree at assetsDir
BuildAssets ==
  /\ sc.pc = "idle"
  /\ \E t \in AssetTrees : sc' = [sc EXCEPT !.pc = "built", !.tree = t]

\* prepareAssetBundle(assetsDir) runs over it
ScanAssets ==
  /\ sc.pc = "built"
  /\ sc' = [sc EXCEPT !.pc = "scanned", !.result = PrepareAssetBundleResult(sc.tree)]

RECURSIVE SumOfSizes(_)
SumOfSizes(files) == IF files = <<>> THEN 0 ELSE Head(files).size + SumOfSizes(Tail(files))

\* the paths of the readable regular files of a tree
RECURSIVE ReadableFiles(_, _)
ReadableFiles(entries, relativePath) ==
  UNION {IF entries[i].kind = "file" THEN {Append(relativePath, i)}
         ELSE IF entries[i].kind = "dir"
           THEN ReadableFiles(entries[i].entries, Append(relativePath, i))
         ELSE {} : i \in 1..Len(entries)}

\* C18: the bundle returned by prepareAssetBundle has totalSize equal to the
\* sum of size over its files, for every directory tree (nested directories,
\* empty directories, no files).
C18_TotalSizeIsSum ==
  (sc.pc = "scanned" /\ ~sc.result.threw)
    => sc.result.totalSize = SumOfSizes(sc.result.files)

C18_Witness ==
  /\ sc.pc = "scanned" /\ ~sc.result.threw
  /\ Len(sc.result.files) >= 3
  /\ sc.result.totalSize = 13
  /\ \E i \in 1..Len(sc.tree.entries) :
       sc.tree.entries[i].kind = "dir" /\ Len(sc.tree.entries[i].entries) = 2

\* C19: when the scan meets a file that cannot be read it skips the file and
\* returns a bundle with every readable file; only a missing root directory
\* aborts the scan.
C19_UnreadableFilesSkipped ==
  (sc.pc = "scanned" /\ sc.tree.exists)
    => /\ ~sc.result.threw
       /\ {sc.result.files[i].path : i \in 1..Len(sc.result.files)}
            = ReadableFiles(RootEntries(sc.tree), <<>>)


(***************************************************************************)
(* Properties of the merged configuration                                  *)
(***************************************************************************)
\* the fields the caller's options and the config file both set
SetByBoth(k) ==
  /\ call.options[k] # UNDEF
  /\ call.file.state = "valid"
  /\ call.file.config[k] # UNDEF

\* C22: loadConfiguration gives defaults < config file < CLI options: for
\* every field that the config file and the CLI options both set, the
\* returned configuration carries the value of the CLI options.
C22_CliOverridesFile ==
  (call.op \in {"deploy", "rollback", "list"} /\ config # NoConfig)
    => \A k \in ConfigFields : SetByBoth(k) => config[k] = call.options[k]

\* C30: a github-pages deploy for which neither the caller's options nor the
\* config file name a branch force-pushes to gh-pages, never to main.
C30_DefaultBranchIsGhPages ==
  ( /\ call.op = "deploy"
    /\ pushed # "none"
    /\ call.options.branch = UNDEF
    /\ (call.file.state = "valid" => call.file.config.branch = UNDEF) )
    => pushed = "gh-pages"

(***************************************************************************)
(* Properties of the performance metrics (SpecVal)                         *)
(***************************************************************************)
\* C23: in the PerformanceMetrics of a validation, loadTime and wasmLoadTime
\* are -1 whenever the timed request did not complete (the metric is
\* unmeasured), and 0 only when the request completed in zero milliseconds.
C23_UnmeasuredIsMinusOne ==
  (vin.phase = "done" /\ Len(vres.performance) = 1)
    => LET m    == vres.performance[1]
           core == vin.net["HEAD /core.min.js (timing)"]
           wasm == vin.net["HEAD /assets/dataprism-core.wasm (timing)"] IN
         /\ Throws(core) => m.loadTime = -1 /\ m.wasmLoadTime = -1
         /\ Throws(wasm) => m.wasmLoadTime = -1
         /\ m.loadTime = 0 => ~Throws(core) /\ Elapsed(core) = 0
         /\ m.wasmLoadTime = 0 => ~Throws(core) /\ ~Throws(wasm) /\ Elapsed(wasm) = 0

(***************************************************************************)
(* CDNPluginLoader (plugin-loader.ts)                                      *)
(* A loadPlugin call runs synchronously up to its first await, its         *)
(* dependencies' loadPlugin calls included; every await is a point where   *)
(* other calls and the settling of promises interleave.                    *)
(***************************************************************************)
PluginIds == {"A", "B"}          \* the plugins of the manifest
CallIds   == PluginIds \cup {"X"}   \* "X" is an id no manifest lists

MaxStack       == 2   \* nested loadPlugin activations the engine's call stack holds
MaxInvocations == 2   \* calls of the client after its first initialize, and loads of the preload
MaxUnloads     == 1   \* unloadPlugin calls among them

\* constructor lines 77-87: the defaults under the caller's options
DefaultLoadOptions == [retries |-> 3, cache |-> TRUE, integrity |-> TRUE, fallback |-> TRUE]

LoadOptions ==
  {DefaultLoadOptions,
   [DefaultLoadOptions EXCEPT !.retries = 0],
   [DefaultLoadOptions EXCEPT !.cache = FALSE],
   [DefaultLoadOptions EXCEPT !.fallback = FALSE],
   [DefaultLoadOptions EXCEPT !.integrity = FALSE]}

\* manifests: the dependencies of each plugin, the content their integrity
\* value was computed from ("" for an empty integrity string), the plugins
\* that are not lazy and have a loadOrder below 10, in the order of their
\* loadOrder (critical), and compatibility.webAssembly
Manifests ==
  {[dependencies |-> d, integrity |-> "genuine", critical |-> <<>>, webAssembly |-> FALSE] :
     d \in {[A |-> <<>>, B |-> <<>>], [A |-> <<"B">>, B |-> <<>>],
            [A |-> <<"B">>, B |-> <<"A">>], [A |-> <<"A">>, B |-> <<>>]}}
    \cup {[dependencies |-> [A |-> <<>>, B |-> <<>>], integrity |-> "",
           critical |-> <<>>, webAssembly |-> FALSE],
          [dependencies |-> [A |-> <<>>, B |-> <<>>], integrity |-> "genuine",
           critical |-> <<"A">>, webAssembly |-> TRUE],
          [dependencies |-> [A |-> <<"B">>, B |-> <<>>], integrity |-> "genuine",
           critical |-> <<"A", "B">>, webAssembly |-> FALSE]}

\* the manifest whose plugins are lazy, without dependencies, with integrity
PlainManifest ==
  [dependencies |-> [A |-> <<>>, B |-> <<>>], integrity |-> "genuine",
   critical |-> <<>>, webAssembly |-> FALSE]

NoManifest ==
  [dependencies |-> [A |-> <<>>, B |-> <<>>], integrity |-> "",
   critical |-> <<>>, webAssembly |-> FALSE]

\* what the CDN serves under a plugin's entry URL: the content the manifest
\* was built from, another module with a plugin export, a module without a
\* plugin export, a module whose export is neither function nor object, a
\* module whose export is a class with a throwing constructor, a page that is
\* no JavaScript module, or nothing (fetch and import both throw)
Served == {"genuine", "tampered", "noexport", "badtype", "throwing", "page", "down"}

\* the second argument of loadPlugin: options.retries, when given
NoCallOptions == [retries |-> NotPassed]
CallOptions   == {NoCallOptions, [retries |-> 1]}

Networks == {[A |-> a, B |-> "genuine"] : a \in Served} \cup {[A |-> "genuine", B |-> "down"]}

\* what a loader is initialized on: the plain manifest with every content
\* served, every other manifest with the CDN up or with one entry down
Deployments ==
  {[manifest |-> PlainManifest, net |-> n] : n \in Networks}
    \cup {[manifest |-> m, net |-> n] :
            m \in Manifests \ {PlainManifest},
            n \in {[A |-> "genuine", B |-> "genuine"], [A |-> "down", B |-> "genuine"],
                   [A |-> "genuine", B |-> "down"]}}

ErrNotInitialized == "Plugin loader not initialized - call initialize() first"
ErrPluginNotFound == "Plugin not found"
ErrIntegrity      == "Integrity check failed"
ErrImport         == "Failed to fetch dynamically imported module"
ErrFetch          == "fetch failed"
ErrSyntax         == "Unexpected token '<'"
ErrNoExport       == "Plugin does not export a valid plugin class or function"
ErrBadType        == "Plugin export is not a valid plugin type"
ErrClassCall      == "Class constructor cannot be invoked without 'new'"
ErrManifest       == "Plugin loader initialization failed"
ErrRange          == "Maximum call stack size exceeded"

NoBatch == [ids |-> <<>>, kids |-> <<>>, state |-> "none", loaded |-> <<>>]

\* one activation of initialize(): where it is ("fetching" at await
\* this.fetchManifest, "preloading" while preloadCriticalPlugins awaits the
\* loadPlugin call kid with queue still to load, "returned" at await
\* this.preloadCriticalPlugins() once that function has returned, and then
\* "resolved" or "rejected")
InitAt(state) == [state |-> state, queue |-> <<>>, kid |-> 0]

\* the loader's fields before new CDNPluginLoader(options)
LoaderStart ==
  [phase |-> "idle", options |-> DefaultLoadOptions, manifest |-> NoManifest,
   net |-> [A |-> "genuine", B |-> "genuine"],
   plugins |-> [i \in PluginIds |-> 0], objs |-> <<>>,
   cache |-> [i \in PluginIds |-> 0], promises |-> <<>>,
   calls |-> <<>>, batch |-> NoBatch, invocations |-> 0,
   attempts |-> [i \in PluginIds |-> 0], instantiated |-> [i \in PluginIds |-> 0],
   unloading |-> {}, unloaded |-> {}, unloads |-> 0,
   inits |-> <<>>]

LoaderIdle == pl = LoaderStart

\* status of the LoadedPlugin registered under id ("none" without an entry)
StatusOf(st, id) ==
  IF id \notin PluginIds \/ st.plugins[id] = 0 THEN "none" ELSE st.objs[st.plugins[id]].status

\* isPluginLoaded (270-273)
IsPluginLoaded(st, id) == StatusOf(st, id) = "loaded"

\* what a loadPlugin call finds when it starts
Seen(st, id) ==
  [status   |-> StatusOf(st, id),
   attempts |-> IF id \in PluginIds THEN st.attempts[id] ELSE 0,
   failed   |-> \E c \in 1..Len(st.calls) :
                  /\ st.calls[c].id = id
                  /\ st.calls[c].pc = "rejected"
                  /\ st.calls[c].promise # 0
                  /\ st.promises[st.calls[c].promise].state = "rejected"]

\* one activation of loadPlugin: its LoadedPlugin (obj), the integrity value
\* of the pluginInfo it found, the calls and the module promise it awaits, and
\* what its promise settled with
NewCall(st, id, options, pcv, obj, value, reason) ==
  [id |-> id, options |-> options, integrity |-> st.manifest.integrity,
   pc |-> pcv, obj |-> obj, kids |-> {}, promise |-> 0,
   value |-> value, reason |-> reason, seen |-> Seen(st, id)]

RECURSIVE LoadPluginSync(_, _, _, _)
RECURSIVE LoadDependencies(_, _, _, _)

\* loadPlugin (115-176) from its entry to its first await, at line 146; an
\* activation the call stack has no room for throws a RangeError, with which
\* its promise rejects
LoadPluginSync(st, id, options, depth) ==
  IF depth > MaxStack
    THEN [st EXCEPT !.calls = Append(@, NewCall(st, id, options, "rejected", 0, 0, ErrRange))]
  ELSE IF st.phase # "initialized"
    THEN [st EXCEPT !.calls = Append(@, NewCall(st, id, options, "rejected", 0, 0, ErrNotInitialized))]
  ELSE IF IsPluginLoaded(st, id)
    THEN [st EXCEPT !.calls = Append(@, NewCall(st, id, options, "fulfilled", 0, st.plugins[id], UNDEF))]
  ELSE IF id \notin PluginIds
    THEN [st EXCEPT !.calls = Append(@, NewCall(st, id, options, "rejected", 0, 0, ErrPluginNotFound))]
  ELSE LET me == Len(st.calls) + 1
           o  == Len(st.objs) + 1
           registered ==
             [st EXCEPT !.objs = Append(@, [id |-> id, status |-> "loading", error |-> UNDEF]),
                        !.plugins[id] = o,
                        !.calls = Append(@, NewCall(st, id, options, "awaitDeps", o, 0, UNDEF))] IN
         LoadDependencies(registered, st.manifest.dependencies[id], me, depth)

\* loadDependencies (374-384): one loadPlugin per dependency that is not
\* loaded, all started before the first of them is awaited
LoadDependencies(st, deps, parent, depth) ==
  IF deps = <<>> THEN st
  ELSE LET kid == Len(st.calls) + 1
           started ==
             IF IsPluginLoaded(st, Head(deps)) THEN st
             ELSE [LoadPluginSync(st, Head(deps), NoCallOptions, depth + 1)
                     EXCEPT !.calls[parent].kids = @ \cup {kid}] IN
         LoadDependencies(started, Tail(deps), parent, depth)

\* the catch block of loadPlugin (165-175)
CatchLoadError(st, c, reason) ==
  [st EXCEPT !.objs[st.calls[c].obj].status = "error",
             !.objs[st.calls[c].obj].error = reason,
             !.calls[c].pc = "rejected",
             !.calls[c].reason = reason]

\* the first await of the operation given to withRetry (394-405)
FirstPhase(st, integrity) ==
  IF st.options.integrity /\ integrity # "" THEN "verify" ELSE "import"

\* loadPluginModule (386-412) up to its return: the cached promise, or a new
\* withRetry promise that is put in the cache; its maxRetries is
\* options.retries || this.options.retries of the call that creates it.
\* withRetry runs up to the first await of its first attempt, or, with
\* maxRetries 0, up to throw lastError after the loop
LoadPluginModule(st, c) ==
  LET id  == st.calls[c].id
      p   == Len(st.promises) + 1
      max == LoaderMaxRetries(st.calls[c].options.retries, st.options.retries) IN
    IF st.options.cache /\ st.cache[id] # 0
      THEN [st EXCEPT !.calls[c].pc = "awaitModule", !.calls[c].promise = st.cache[id]]
      ELSE [st EXCEPT !.promises = Append(@, [id |-> id, maxRetries |-> max,
                                               state |-> IF max <= 0 THEN "rejected" ELSE "pending",
                                               integrity |-> st.calls[c].integrity,
                                               phase |-> IF max <= 0 THEN "done"
                                                         ELSE FirstPhase(st, st.calls[c].integrity),
                                               attempt |-> IF max <= 0 THEN 0 ELSE 1,
                                               lastError |-> UNDEF,
                                               reason |-> UNDEF, content |-> UNDEF]),
                      !.attempts[id] = IF max <= 0 THEN @ ELSE @ + 1,
                      !.cache[id] = IF st.options.cache THEN p ELSE @,
                      !.calls[c].pc = "awaitModule",
                      !.calls[c].promise = p]

\* verifyIntegrity (445-469): the error it throws for what the URL serves,
\* UNDEF when it returns; the error of a failed fetch is rethrown as it is
VerifyIntegrity(options, served, integrity) ==
  IF options.fallback THEN UNDEF
  ELSE IF served = "down" THEN ErrFetch
  ELSE IF Sha384(served) # Sha384(integrity) THEN ErrIntegrity
  ELSE UNDEF

\* import(pluginUrl) (line 403): the error it throws, UNDEF for a module
Import(served) ==
  CASE served = "down" -> ErrImport
    [] served = "page" -> ErrSyntax
    [] OTHER -> UNDEF

\* instantiatePlugin (414-435): the error it throws, UNDEF when it returns
\* an instance. For a class whose constructor throws, new PluginClass(...)
\* throws, the catch calls PluginClass(...) as a factory (429), and that call
\* throws the TypeError of a class called without new
InstantiatePlugin(module) ==
  CASE module = "noexport" -> ErrNoExport
    [] module = "badtype" -> ErrBadType
    [] module = "throwing" -> ErrClassCall
    [] OTHER -> UNDEF

\* the catch block of withRetry (477-485): the attempt of promise p threw err
AttemptFails(st, p, err) ==
  IF st.promises[p].attempt < st.promises[p].maxRetries
    THEN [st EXCEPT !.promises[p].phase = "backoff", !.promises[p].lastError = err]
    ELSE [st EXCEPT !.promises[p].phase = "done", !.promises[p].lastError = err,
                    !.promises[p].state = "rejected", !.promises[p].reason = err]

Settled(c) == pl.calls[c].pc \in {"fulfilled", "rejected"}

\* new CDNPluginLoader(options)
NewCDNPluginLoader ==
  /\ pl.phase = "idle"
  /\ \E o \in LoadOptions : pl' = [pl EXCEPT !.phase = "constructed", !.options = o]

\* the client calls initialize() (92-96): it runs up to await
\* this.fetchManifest(url). Nothing in initialize looks at a call in flight,
\* so a call can start while others are pending.
Initialize ==
  /\ pl.phase \in {"constructed", "initialized"}
  /\ pl.inits # <<>> => pl.invocations < MaxInvocations
  /\ pl' = [pl EXCEPT !.inits = Append(@, InitAt("fetching")),
                      !.invocations = IF pl.inits = <<>> THEN @ ELSE @ + 1]

\* await this.fetchManifest(url) of an initialize resumes (97-104): the fetch
\* has failed and initialize rejects; or this.manifest is replaced, and then
\* validateBrowserCompatibility throws (the manifest requires WebAssembly, the
\* browser has none) and initialize rejects, or preloadCriticalPlugins
\* (350-372) runs up to its first await, the loadPlugin of the first critical
\* plugin, or returns at once without a critical plugin; initialize then
\* waits at await this.preloadCriticalPlugins(). What the CDN serves for the
\* plugins is fixed when the first manifest arrives.
FetchManifestSettles ==
  /\ \E i \in 1..Len(pl.inits),
        d \in IF pl.phase = "constructed" THEN Deployments
              ELSE {[manifest |-> m, net |-> pl.net] : m \in Manifests},
        how \in {"fetched", "unfetched", "unsupported"} :
       LET m      == d.manifest
           asked  == IF how = "fetched" THEN pl.invocations + Len(m.critical)
                                       ELSE pl.invocations
           ready  == [pl EXCEPT !.phase = "initialized", !.manifest = m, !.net = d.net,
                                !.invocations = asked] IN
         /\ pl.inits[i].state = "fetching"
         /\ asked <= MaxInvocations
         /\ how = "unsupported" => m.webAssembly
         /\ pl' =
               IF how = "unfetched"
                 THEN [pl EXCEPT !.inits[i] = InitAt("rejected")]
               ELSE IF how = "unsupported"
                 THEN [ready EXCEPT !.inits[i] = InitAt("rejected")]
               ELSE IF m.critical = <<>>
                 THEN [ready EXCEPT !.inits[i] = InitAt("returned")]
               ELSE [LoadPluginSync(ready, Head(m.critical), NoCallOptions, 1)
                       EXCEPT !.inits[i] = [state |-> "preloading", queue |-> Tail(m.critical),
                                            kid |-> Len(pl.calls) + 1]]

\* await this.loadPlugin(plugin.id) of preloadCriticalPlugins resumes
\* (365-371): a failure is only logged; the next critical plugin is loaded,
\* or preloadCriticalPlugins returns
PreloadContinues ==
  /\ \E i \in 1..Len(pl.inits) :
       /\ pl.inits[i].state = "preloading"
       /\ Settled(pl.inits[i].kid)
       /\ pl' = IF pl.inits[i].queue = <<>>
                  THEN [pl EXCEPT !.inits[i] = InitAt("returned")]
                  ELSE [LoadPluginSync(pl, Head(pl.inits[i].queue), NoCallOptions, 1)
                          EXCEPT !.inits[i] = [state |-> "preloading",
                                               queue |-> Tail(pl.inits[i].queue),
                                               kid |-> Len(pl.calls) + 1]]

\* await this.preloadCriticalPlugins() of initialize resumes (104): the
\* promise of initialize is fulfilled
InitializeSettles ==
  /\ \E i \in 1..Len(pl.inits) :
       /\ pl.inits[i].state = "returned"
       /\ pl' = [pl EXCEPT !.inits[i] = InitAt("resolved")]

\* the client calls loadPlugin(pluginId, options)
LoadPlugin ==
  /\ pl.phase \in {"constructed", "initialized"}
  /\ pl.invocations < MaxInvocations
  /\ \E id \in IF pl.phase = "initialized" THEN CallIds ELSE {"A"}, options \in CallOptions :
       /\ (pl.phase # "initialized" \/ id # "A") => options = NoCallOptions
       /\ pl' = [LoadPluginSync(pl, id, options, 1) EXCEPT !.invocations = @ + 1]

\* the client calls unloadPlugin(pluginId) (244-265): without an entry it
\* returns; an instance with a cleanup function is cleaned up first and the
\* entry deleted once cleanup has resolved; otherwise (no instance while the
\* plugin is loading or after an error, or no cleanup function) the entry is
\* deleted at once
UnloadPlugin ==
  /\ pl.phase = "initialized"
  /\ pl.unloads < MaxUnloads
  /\ pl.invocations < MaxInvocations
  /\ \E id \in PluginIds, cleanup \in BOOLEAN :
       /\ pl.plugins[id] # 0
       /\ cleanup => IsPluginLoaded(pl, id)
       /\ pl' = IF cleanup
                  THEN [pl EXCEPT !.unloads = @ + 1, !.invocations = @ + 1, !.unloading = @ \cup {id}]
                  ELSE [pl EXCEPT !.unloads = @ + 1, !.invocations = @ + 1, !.plugins[id] = 0, !.unloaded = @ \cup {id}]

\* await plugin.instance.cleanup() of unloadPlugin resumes: the entry now
\* under the id is deleted, or cleanup has rejected and the error is logged
UnloadPluginSettles ==
  /\ \E id \in pl.unloading, ok \in BOOLEAN :
       pl' = IF ok
               THEN [pl EXCEPT !.unloading = @ \ {id}, !.plugins[id] = 0, !.unloaded = @ \cup {id}]
               ELSE [pl EXCEPT !.unloading = @ \ {id}]

RECURSIVE StartAll(_, _)
\* pluginIds.map(id => this.loadPlugin(id)) of loadPlugins (182-184)
StartAll(st, ids) ==
  IF ids = <<>> THEN st
  ELSE StartAll([LoadPluginSync(st, Head(ids), NoCallOptions, 1)
                   EXCEPT !.batch.kids = Append(@, Len(st.calls) + 1)], Tail(ids))

IdLists == {<<i>> : i \in PluginIds} \cup {<<i, j>> : i, j \in PluginIds}

\* the client calls loadPlugins(pluginIds)
LoadPlugins ==
  /\ pl.phase = "initialized"
  /\ pl.batch.state = "none"
  /\ \E ids \in IdLists :
       /\ pl.invocations + Len(ids) <= MaxInvocations
       /\ pl' = [StartAll([pl EXCEPT !.batch = [NoBatch EXCEPT !.ids = ids, !.state = "pending"]], ids)
                   EXCEPT !.invocations = @ + Len(ids)]

\* a loadDependencies whose Promise.all settles only once every dependency
\* is loaded: a call with a rejected dependency waits for ever
DependenciesSettleFulfilled ==
  /\ \E c \in 1..Len(pl.calls) :
       /\ pl.calls[c].pc = "awaitDeps"
       /\ \A k \in pl.calls[c].kids : pl.calls[k].pc = "fulfilled"
       /\ pl' = LoadPluginModule(pl, c)

\* await this.loadDependencies(...) of loadPlugin resumes: Promise.all has
\* rejected with a dependency's error, or every dependency is loaded and
\* loadPluginModule is called
DependenciesSettle ==
  /\ \E c \in 1..Len(pl.calls) :
       /\ pl.calls[c].pc = "awaitDeps"
       /\ \/ \E k \in pl.calls[c].kids :
               /\ pl.calls[k].pc = "rejected"
               /\ pl' = CatchLoadError(pl, c, pl.calls[k].reason)
          \/ /\ \A k \in pl.calls[c].kids : pl.calls[k].pc = "fulfilled"
             /\ pl' = LoadPluginModule(pl, c)

\* await this.verifyIntegrity(...) of an attempt resumes (395-398)
VerifyIntegritySettles ==
  /\ \E p \in 1..Len(pl.promises) :
       LET err == VerifyIntegrity(pl.options, pl.net[pl.promises[p].id], pl.promises[p].integrity) IN
         /\ pl.promises[p].phase = "verify"
         /\ pl' = IF err # UNDEF THEN AttemptFails(pl, p, err)
                                 ELSE [pl EXCEPT !.promises[p].phase = "import"]

\* await import(pluginUrl) of an attempt resumes (403-404): withRetry returns
\* the module, or its catch block runs
ImportSettles ==
  /\ \E p \in 1..Len(pl.promises) :
       LET err == Import(pl.net[pl.promises[p].id]) IN
         /\ pl.promises[p].phase = "import"
         /\ pl' = IF err # UNDEF THEN AttemptFails(pl, p, err)
                                 ELSE [pl EXCEPT !.promises[p].phase = "done",
                                                 !.promises[p].state = "fulfilled",
                                                 !.promises[p].content = pl.net[pl.promises[p].id]]

\* the timer of the backoff fires (480-484): attempt++ and the operation
\* runs again up to its first await
BackoffEnds ==
  /\ \E p \in 1..Len(pl.promises) :
       /\ pl.promises[p].phase = "backoff"
       /\ pl' = [pl EXCEPT !.promises[p].attempt = @ + 1,
                           !.promises[p].phase = FirstPhase(pl, pl.promises[p].integrity),
                           !.attempts[pl.promises[p].id] = @ + 1]

\* await this.loadPluginModule(...) of loadPlugin resumes: the plugin is
\* instantiated and the call returns its LoadedPlugin (150-163), or the
\* catch block runs
LoadPluginSettles ==
  /\ \E c \in 1..Len(pl.calls) :
       /\ pl.calls[c].pc = "awaitModule"
       /\ pl.promises[pl.calls[c].promise].state # "pending"
       /\ pl' = IF pl.promises[pl.calls[c].promise].state = "rejected"
                  THEN CatchLoadError(pl, c, pl.promises[pl.calls[c].promise].reason)
                ELSE IF InstantiatePlugin(pl.promises[pl.calls[c].promise].content) # UNDEF
                  THEN CatchLoadError(pl, c, InstantiatePlugin(pl.promises[pl.calls[c].promise].content))
                ELSE [pl EXCEPT !.instantiated[pl.calls[c].id] = @ + 1,
                                !.objs[pl.calls[c].obj].status = "loaded",
                                !.calls[c].pc = "fulfilled",
                                !.calls[c].value = pl.calls[c].obj]

\* the values of the fulfilled calls among kids, in the order of kids
FulfilledValues(st, kids) ==
  LET ok == SelectSeq(kids, LAMBDA k : st.calls[k].pc = "fulfilled") IN
    [i \in 1..Len(ok) |-> st.calls[ok[i]].value]

\* results.forEach of loadPlugins (189-195) reads result.reason.message,
\* a TypeError when the reason is undefined
ReasonHasNoMessage(st, kids) ==
  \E i \in 1..Len(kids) : st.calls[kids[i]].pc = "rejected" /\ st.calls[kids[i]].reason = UNDEF

\* Promise.allSettled of loadPlugins resumes (186-201)
LoadPluginsSettle ==
  /\ pl.batch.state = "pending"
  /\ \A i \in 1..Len(pl.batch.kids) : Settled(pl.batch.kids[i])
  /\ pl' = IF ReasonHasNoMessage(pl, pl.batch.kids)
             THEN [pl EXCEPT !.batch.state = "rejected"]
             ELSE [pl EXCEPT !.batch.state = "fulfilled",
                             !.batch.loaded = FulfilledValues(pl, pl.batch.kids)]

\* the CDN serves a plugin's entry again
NetworkRecovers ==
  /\ pl.phase = "initialized"
  /\ \E id \in PluginIds :
       /\ pl.net[id] = "down"
       /\ pl' = [pl EXCEPT !.net[id] = "genuine"]

(***************************************************************************)
(* Properties of the plugin loader (SpecLoader)                            *)
(***************************************************************************)
\* C24: loadPlugins(ids) never rejects: it starts one load per id, and it
\* returns exactly the plugins whose load was fulfilled, in the order of ids.
C24_LoadPluginsNeverRejects ==
  pl.batch.state \notin {"none", "pending"}
    => /\ pl.batch.state = "fulfilled"
       /\ Len(pl.batch.kids) = Len(pl.batch.ids)
       /\ \A i \in 1..Len(pl.batch.kids) : pl.calls[pl.batch.kids[i]].id = pl.batch.ids[i]
       /\ pl.batch.loaded = FulfilledValues(pl, pl.batch.kids)

Unsettled == \E c \in 1..Len(pl.calls) : ~Settled(c)

\* C25: loadPlugin(id) terminates (resolves or rejects) for every manifest,
\* manifests with cyclic dependencies included: calls that are in flight are
\* eventually all settled.
C25_LoadPluginTerminates == Unsettled ~> ~Unsettled

\* loadPlugin("A") on the manifest where A depends on B and B on A: the third
\* activation was rejected with the RangeError, and so were the two above it
C25_Witness ==
  /\ pl.manifest.dependencies = [A |-> <<"B">>, B |-> <<"A">>]
  /\ Len(pl.calls) = 3
  /\ ~Unsettled
  /\ pl.calls[3].reason = ErrRange
  /\ pl.calls[1].pc = "rejected"
  /\ pl.calls[1].reason = ErrRange

\* C26: when a loadPlugin call starts while another one for the same id is
\* in status loading, the plugin is instantiated at most once and both calls
\* return the LoadedPlugin that the plugin map holds.
C26_OverlappingLoadsShareOnePlugin ==
  \A c1, c2 \in 1..Len(pl.calls) :
    ( /\ c1 < c2
      /\ pl.calls[c1].id = pl.calls[c2].id
      /\ pl.calls[c1].id \notin pl.unloaded
      /\ pl.calls[c2].seen.status = "loading"
      /\ pl.calls[c1].pc = "fulfilled"
      /\ pl.calls[c2].pc = "fulfilled" )
      => /\ pl.instantiated[pl.calls[c1].id] <= 1
         /\ pl.calls[c1].value = pl.plugins[pl.calls[c1].id]
         /\ pl.calls[c2].value = pl.plugins[pl.calls[c1].id]

\* C27: with the default options, a loadPlugin(id) that comes after a
\* loadPlugin(id) whose module load failed runs the module load again.
C27_FailedLoadIsAttemptedAgain ==
  pl.options = DefaultLoadOptions
    => \A c \in 1..Len(pl.calls) :
         (pl.calls[c].seen.failed /\ pl.calls[c].promise # 0 /\ Settled(c))
           => pl.attempts[pl.calls[c].id] > pl.calls[c].seen.attempts

\* C28: with the default options and a non-empty integrity value, a plugin
\* reaches status loaded only if the SHA-384 digest of the content fetched
\* for it equals the integrity value the manifest held for it when the load
\* was called.
C28_OnlyVerifiedModulesLoad ==
  (pl.options = DefaultLoadOptions /\ pl.phase = "initialized")
    => \A c \in 1..Len(pl.calls) :
         (pl.calls[c].pc = "fulfilled" /\ pl.calls[c].promise # 0 /\ pl.calls[c].integrity # "")
           => Sha384(pl.promises[pl.calls[c].promise].content) = Sha384(pl.calls[c].integrity)

(***************************************************************************)
(* Specifications                                                          *)
(***************************************************************************)
ValIdle == vin = IdleValidator /\ vres = NoResult

Init == OrchInit /\ ValIdle /\ RetryIdle /\ CliIdle /\ ManifestIdle /\ ScanIdle /\ LoaderIdle

Next ==
  \/ InvokeDeploy /\ UNCHANGED exceptOrch
  \/ InvokeRollback /\ UNCHANGED exceptOrch
  \/ InvokeListDeployments /\ UNCHANGED exceptOrch
  \/ InvokeProviderDeploy /\ UNCHANGED exceptOrch
  \/ LoadConfigurationStep /\ UNCHANGED exceptOrch
  \/ PrepareAssetBundle /\ UNCHANGED exceptOrch
  \/ DryRunCheck /\ UNCHANGED exceptOrch
  \/ GetDeploymentProvider /\ UNCHANGED exceptOrch
  \/ TestConnection /\ UNCHANGED exceptOrch
  \/ CallProviderDeploy /\ UNCHANGED exceptOrch
  \/ BeforeDeployHook /\ UNCHANGED exceptOrch
  \/ ValidateConfig /\ UNCHANGED exceptOrch
  \/ PrepareDeploymentDirectory /\ UNCHANGED exceptOrch
  \/ ConfigureGitHubPages /\ UNCHANGED exceptOrch
  \/ DeployToGitHubPages /\ UNCHANGED exceptOrch
  \/ CleanupDeploymentDirectory /\ UNCHANGED exceptOrch
  \/ AfterDeployHook /\ UNCHANGED exceptOrch
  \/ CatchDeployError /\ UNCHANGED exceptOrch
  \/ AfterProviderDeploy /\ UNCHANGED exceptOrch
  \/ ProviderDeploySettles /\ UNCHANGED exceptOrch
  \/ ValidateDeploymentStep /\ UNCHANGED exceptOrch
  \/ ProviderRollback /\ UNCHANGED exceptOrch
  \/ ProviderListDeployments /\ UNCHANGED exceptOrch
  \/ CliDeploy /\ UNCHANGED exceptOrchCli
  \/ CliRollback /\ UNCHANGED exceptOrchCli
  \/ CliMinimalDeploy /\ UNCHANGED exceptOrchCli
  \/ CliMinimalTimer /\ UNCHANGED exceptOrchCli

Spec == Init /\ [][Next]_vars


VInit == OrchInit /\ ValIdle /\ RetryIdle /\ CliIdle /\ ManifestIdle /\ ScanIdle /\ LoaderIdle

VNext ==
  \/ NewValidator /\ UNCHANGED exceptVal
  \/ ValidateDeploymentCall /\ UNCHANGED exceptVal
  \/ CliValidate /\ UNCHANGED exceptValCli
  \/ CliMinimalValidate /\ UNCHANGED exceptValCli

SpecVal == VInit /\ [][VNext]_vars


RInit == OrchInit /\ ValIdle /\ RetryIdle /\ CliIdle /\ ManifestIdle /\ ScanIdle /\ LoaderIdle

RNext ==
  \/ WithRetryCall /\ UNCHANGED exceptRetry
  \/ RetryLoop /\ UNCHANGED exceptRetry
  \/ RetryTry /\ UNCHANGED exceptRetry
  \/ RetryTimer /\ UNCHANGED exceptRetry

SpecRetry == RInit /\ [][RNext]_vars


MInit == OrchInit /\ ValIdle /\ RetryIdle /\ CliIdle /\ ManifestIdle /\ ScanIdle /\ LoaderIdle

MNext ==
  \/ ManifestPlugin /\ UNCHANGED exceptManifest
  \/ GenerateBundle /\ UNCHANGED exceptManifest

SpecManifest == MInit /\ [][MNext]_vars


SInit == OrchInit /\ ValIdle /\ RetryIdle /\ CliIdle /\ ManifestIdle /\ ScanIdle /\ LoaderIdle

SNext ==
  \/ BuildAssets /\ UNCHANGED exceptScan
  \/ ScanAssets /\ UNCHANGED exceptScan

SpecScan == SInit /\ [][SNext]_vars

LInit == OrchInit /\ ValIdle /\ RetryIdle /\ CliIdle /\ ManifestIdle /\ ScanIdle /\ LoaderIdle

\* the steps the event loop takes by itself
LoaderStep ==
  \/ DependenciesSettle /\ UNCHANGED exceptLoader
  \/ VerifyIntegritySettles /\ UNCHANGED exceptLoader
  \/ ImportSettles /\ UNCHANGED exceptLoader
  \/ BackoffEnds /\ UNCHANGED exceptLoader
  \/ LoadPluginSettles /\ UNCHANGED exceptLoader
  \/ LoadPluginsSettle /\ UNCHANGED exceptLoader
  \/ UnloadPluginSettles /\ UNCHANGED exceptLoader
  \/ FetchManifestSettles /\ UNCHANGED exceptLoader
  \/ PreloadContinues /\ UNCHANGED exceptLoader
  \/ InitializeSettles /\ UNCHANGED exceptLoader

LNext ==
  \/ NewCDNPluginLoader /\ UNCHANGED exceptLoader
  \/ Initialize /\ UNCHANGED exceptLoader
  \/ LoadPlugin /\ UNCHANGED exceptLoader
  \/ LoadPlugins /\ UNCHANGED exceptLoader
  \/ UnloadPlugin /\ UNCHANGED exceptLoader
  \/ NetworkRecovers /\ UNCHANGED exceptLoader
  \/ LoaderStep

SpecLoader == LInit /\ [][LNext]_vars

\* the loaders whose steps are checked for progress: constructed with the
\* default options, or with retries 0
LiveOptions == {DefaultLoadOptions, [DefaultLoadOptions EXCEPT !.retries = 0]}

LiveInit ==
  /\ OrchInit /\ ValIdle /\ RetryIdle /\ CliIdle /\ ManifestIdle /\ ScanIdle
  /\ pl \in {[LoaderStart EXCEPT !.phase = "constructed", !.options = o] : o \in LiveOptions}

LiveNext ==
  \/ Initialize /\ UNCHANGED exceptLoader
  \/ LoadPlugin /\ UNCHANGED exceptLoader
  \/ LoadPlugins /\ UNCHANGED exceptLoader
  \/ UnloadPlugin /\ UNCHANGED exceptLoader
  \/ NetworkRecovers /\ UNCHANGED exceptLoader
  \/ LoaderStep

\* the event loop runs a step whenever one is ready
SpecLoaderLive == LiveInit /\ [][LiveNext]_vars /\ WF_vars(LoaderStep)

====
